---- MODULE Spec2Model ----
(***************************************************************************)
(* Volt volume-topology tracker: the per-image binary tree                  *)
(* (volt/executor/impl_btree.py), the host bookkeeping, the scanner that    *)
(* kicks off dead hosts, and the v1 controllers that call them.             *)
(*                                                                          *)
(* Strings that the code joins or splits on ':' are sequences of colon-free *)
(* segments: "h1:v1" is <<"h1", "v1">>, joining is \o, splitting is the     *)
(* sequence itself.  Python objects live in a heap keyed by references; a   *)
(* reference is the object's peer_id plus an incarnation number, so two     *)
(* objects that carry the same peer_id stay distinct.  Instants are         *)
(* measured relative to the present: datetime.now() is 0 and a stored       *)
(* timestamp is <= 0; the passing of time shifts every stored instant.      *)
(***************************************************************************)
EXTENDS Integers, Sequences, FiniteSets, Bags, TLC

VARIABLES
    heap,               \* reference -> BTreeNode object
    volumes,            \* BtreeExecutor.volumes: volume_id -> BTree
    host_to_volumes,    \* BtreeExecutor.host_to_volumes: host -> host_info
    default_executor,   \* CONF.default_executor, read once, when the first controller is built
    status,             \* Controller.scanning_thread.status
    started,            \* Thread.__started of the scanning thread
    scanners,           \* the bag of scanner greenlets, each [st, left]
    blocked,            \* query requests waiting inside scanning_thread.start()
    hung,               \* a handler or the scanner spins in a loop that never ends
    hist,               \* the requests served so far and their outcomes (bounded)
    inflight,           \* the greenlets that are between two state accesses of one call
    cpu                 \* the greenlet that runs; eventlet switches only where one blocks

vars == <<heap, volumes, host_to_volumes, default_executor, status, started, scanners, blocked, hung,
          hist, inflight, cpu>>

----------------------------------------------------------------------------
(* Bounds *)

\* seconds that pass in one step of the coarse clock and of the fine clock
CoarseStep == 31
FineStep == 10
\* the clock does not advance while a host's timestamp would get older than this
MaxAge == 40
\* requests recorded in hist before it overflows
MaxHist == 3

Hosts == {<<"h1">>, <<"h2">>, <<"h3">>}
Images == {<<"v1">>}

\* the peer id of host h in the tree of image v, as clients send it
PeerIdsOf(Hs, Vs) == {h \o v : h \in Hs, v \in Vs}

\* the bodies that clients post to register, with a host field among Hs
BodiesOf(Hs) == {[host |-> h, port |-> "3260", iqn |-> "iqn.x", lun |-> "0"] : h \in Hs}

----------------------------------------------------------------------------
(* Values *)

\* Python's None, where a string and where a colon-joined name is expected
NoneStr == "None"
NoneName == <<>>
Null == [pid |-> <<>>, inc |-> 0]
Diverge == [pid |-> <<"diverge">>, inc |-> 0]

MAX_POLLING_TIME == 30
SecondsPerDay == 86400

\* datetime.datetime.now(), relative to the present
Now == 0

\* timedelta.seconds of a difference of d whole seconds (days are a separate field)
Seconds(d) == d % SecondsPerDay

\* utils.generate_uuid(by_time=False, host, image_id): "%s:%s" % (host, image_id)
generate_uuid(host, image_id) == host \o image_id

\* utils.generate_uuid(): 16 random bytes in hex, a colon-free string; the value
\* drawn for the root of each tree is fresh, and no client knows it
UuidHex == (<<"v1">> :> "uuid-1") @@ (<<"v2">> :> "uuid-2") @@ (<<"v", "x">> :> "uuid-3")
random_uuid(volume_id) == <<UuidHex[volume_id]>>

\* utils.get_image_id_from_peerid: (host, image_id) = peer_id.split(':')
get_image_id_from_peerid(peer_id) ==
    IF Len(peer_id) = 2 THEN [out |-> "ok", ret |-> <<peer_id[2]>>]
    ELSE [out |-> "ValueError", ret |-> <<>>]

RECURSIVE SeqOfSet(_)
SeqOfSet(S) ==
    IF S = {} THEN <<>>
    ELSE <<CHOOSE y \in S : TRUE>> \o SeqOfSet(S \ {CHOOSE y \in S : TRUE})

Range(f) == {f[x] : x \in DOMAIN f}

\* f without the key k (del f[k])
DelKey(f, k) == [x \in DOMAIN f \ {k} |-> f[x]]

\* f with f[k] = v (f[k] = v on a dict)
SetKey(f, k, v) == [x \in DOMAIN f \cup {k} |-> IF x = k THEN v ELSE f[x]]

EmptyMap == [x \in {} |-> Null]

----------------------------------------------------------------------------
(* BTreeNode *)

\* BTreeNode.__init__; a peer_id of <<>> is Python's None
BTreeNode(peer_id, host, port, iqn, lun, node_status, image_id, fake_root) ==
    [peer_id |-> IF peer_id = <<>> THEN generate_uuid(host, image_id) ELSE peer_id,
     host |-> host, port |-> port, iqn |-> iqn, lun |-> lun,
     left |-> Null, right |-> Null, parent |-> Null,
     status |-> node_status, fake_root |-> fake_root,
     level |-> IF peer_id = <<>> THEN 0 ELSE -1]

identity(H, n) ==
    [host |-> H[n].host, port |-> H[n].port, iqn |-> H[n].iqn, lun |-> H[n].lun,
     status |-> H[n].status, peer_id |-> H[n].peer_id]

\* get_sibling that always returns self.parent.left
get_sibling_left(H, n) ==
    IF H[n].parent = Null THEN Null
    ELSE H[H[n].parent].left

get_sibling(H, n) ==
    IF H[n].parent = Null THEN Null
    ELSE IF H[H[n].parent].left = n THEN H[H[n].parent].right
    ELSE H[H[n].parent].left

\* a reference for a new object carrying peer_id: the first incarnation not in the heap
NewRef(H, peer_id) ==
    [pid |-> peer_id,
     inc |-> CHOOSE k \in 0..Cardinality(DOMAIN H) :
                 /\ [pid |-> peer_id, inc |-> k] \notin DOMAIN H
                 /\ \A j \in 0..(k - 1) : [pid |-> peer_id, inc |-> j] \in DOMAIN H]

----------------------------------------------------------------------------
(* Module functions of impl_btree.py *)

\* node_available without the test of node.status
has_room(H, node) ==
    IF node = Null THEN FALSE
    ELSE H[node].left = Null \/ H[node].right = Null

node_available(H, node) ==
    IF node = Null THEN FALSE
    ELSE H[node].status = "OK" /\ (H[node].left = Null \/ H[node].right = Null)

\* the loop of tree_find_available_slot with only node.left put on the queue
RECURSIVE slot_search_left(_, _)
slot_search_left(H, node_queue) ==
    IF node_queue = <<>> THEN Null
    ELSE IF Head(node_queue) = Null THEN slot_search_left(H, Tail(node_queue))
    ELSE IF node_available(H, Head(node_queue)) THEN Head(node_queue)
    ELSE slot_search_left(H, Tail(node_queue) \o <<H[Head(node_queue)].left>>)

\* the loop of tree_find_available_slot with node_queue.pop() for popleft()
RECURSIVE slot_search_pop(_, _)
slot_search_pop(H, node_queue) ==
    IF node_queue = <<>> THEN Null
    ELSE IF node_queue[Len(node_queue)] = Null
    THEN slot_search_pop(H, SubSeq(node_queue, 1, Len(node_queue) - 1))
    ELSE IF node_available(H, node_queue[Len(node_queue)]) THEN node_queue[Len(node_queue)]
    ELSE slot_search_pop(H, SubSeq(node_queue, 1, Len(node_queue) - 1)
                            \o <<H[node_queue[Len(node_queue)]].left,
                                 H[node_queue[Len(node_queue)]].right>>)

\* the loop of tree_find_available_slot over node_queue
RECURSIVE slot_search(_, _)
slot_search(H, node_queue) ==
    IF node_queue = <<>> THEN Null
    ELSE IF Head(node_queue) = Null THEN slot_search(H, Tail(node_queue))
    ELSE IF node_available(H, Head(node_queue)) THEN Head(node_queue)
    ELSE slot_search(H, Tail(node_queue)
                        \o <<H[Head(node_queue)].left, H[Head(node_queue)].right>>)

tree_find_available_slot(H, tree_root) == slot_search(H, <<tree_root>>)

\* update_tree_status with "node.level = node.parent.level"
level_of_parent(H, node) ==
    IF H[node].parent # Null THEN H[H[node].parent].level ELSE 0

\* the level update_tree_status gives a node
level_of(H, node) ==
    IF H[node].parent # Null THEN H[H[node].parent].level + 1 ELSE 0

RECURSIVE level_walk(_, _)
level_walk(H, node_queue) ==
    IF node_queue = <<>> THEN H
    ELSE IF Head(node_queue) = Null THEN level_walk(H, Tail(node_queue))
    ELSE level_walk([H EXCEPT ![Head(node_queue)].level = level_of(H, Head(node_queue))],
                    Tail(node_queue) \o <<H[Head(node_queue)].left, H[Head(node_queue)].right>>)

update_tree_status(H, tree_root) == level_walk(H, <<tree_root>>)

----------------------------------------------------------------------------
(* BTree: a record [root, nodes]; nodes maps peer_id -> reference.  Every    *)
(* method returns the heap and tree it leaves, its outcome ("ok", the name  *)
(* of the exception it raises, or "hang") and its return value.             *)

Result(H, tree, out, ret) == [heap |-> H, tree |-> tree, out |-> out, ret |-> ret]

Returning(r, ret) == [r EXCEPT !.ret = ret]

\* a new object in the heap
Alloc(H, ref, rec) == (ref :> rec) @@ H

\* BTree.__init__ with root=None, the root object being ref
plant(H, volume_id, ref) ==
    Result(Alloc(H, ref, BTreeNode(random_uuid(volume_id), <<"uuid-host">>, "uuid-port",
                                   "uuid-iqn", "uuid-lun", "OK", volume_id, TRUE)),
           [root |-> ref, nodes |-> (random_uuid(volume_id) :> ref)], "ok", ref)

BTree(H, volume_id) == plant(H, volume_id, NewRef(H, random_uuid(volume_id)))

\* insert_by_node with "if not slot.right: slot.right = new_node" first
attach_right_first(H, tree, new_node, slot) ==
    IF slot = Null THEN Result(H, tree, "InvalidParameterValue", Null)
    ELSE Result(IF H[slot].right = Null
                THEN [H EXCEPT ![new_node].left = Null, ![new_node].right = Null,
                               ![new_node].parent = slot,
                               ![new_node].level = H[slot].level + 1,
                               ![slot].right = new_node]
                ELSE [H EXCEPT ![new_node].left = Null, ![new_node].right = Null,
                               ![new_node].parent = slot,
                               ![new_node].level = H[slot].level + 1,
                               ![slot].left = new_node],
                [tree EXCEPT !.nodes = SetKey(tree.nodes, H[new_node].peer_id, new_node)],
                "ok", slot)

\* BTree.insert_by_node from "self.nodes[new_node.peer_id] = new_node" on
attach(H, tree, new_node, slot) ==
    IF slot = Null THEN Result(H, tree, "InvalidParameterValue", Null)
    ELSE Result(IF H[slot].left = Null
                THEN [H EXCEPT ![new_node].left = Null, ![new_node].right = Null,
                               ![new_node].parent = slot,
                               ![new_node].level = H[slot].level + 1,
                               ![slot].left = new_node]
                ELSE [H EXCEPT ![new_node].left = Null, ![new_node].right = Null,
                               ![new_node].parent = slot,
                               ![new_node].level = H[slot].level + 1,
                               ![slot].right = new_node],
                [tree EXCEPT !.nodes = SetKey(tree.nodes, H[new_node].peer_id, new_node)],
                "ok", slot)

\* insert_by_node without "elif new_node.parent: raise ..."
insert_by_node_parented(H, tree, new_node) ==
    IF new_node = Null THEN Result(H, tree, "InvalidParameterValue", Null)
    ELSE IF H[new_node].peer_id \in DOMAIN tree.nodes
    THEN Result(H, tree, "InvalidParameterValue", Null)
    ELSE attach(H, tree, new_node, tree_find_available_slot(H, tree.root))

\* BTree.insert_by_node; new_node is a reference already in the heap
insert_by_node(H, tree, new_node) ==
    IF new_node = Null THEN Result(H, tree, "InvalidParameterValue", Null)
    ELSE IF H[new_node].peer_id \in DOMAIN tree.nodes
    THEN Result(H, tree, "InvalidParameterValue", Null)
    ELSE IF H[new_node].parent # Null
    THEN Result(H, tree, "InvalidParameterValue", Null)
    ELSE attach(H, tree, new_node, tree_find_available_slot(H, tree.root))

\* the loop of tree_remove_by_node that looks for the node to hang target.right on
RECURSIVE walk_left(_, _)
walk_left(H, current) ==
    IF node_available(H, current) THEN current
    ELSE IF H[current].left # Null THEN walk_left(H, H[current].left)
    ELSE Diverge

\* tree_remove_by_node with "if not current.right: current.right = target.right" first
hang_right_first(H, target, current) ==
    IF H[current].right = Null
    THEN [H EXCEPT ![H[target].right].parent = current, ![current].right = H[target].right]
    ELSE [H EXCEPT ![H[target].right].parent = current, ![current].left = H[target].right]

\* tree_remove_by_node: target.right goes under current
hang_right(H, target, current) ==
    IF H[current].left = Null
    THEN [H EXCEPT ![H[target].right].parent = current, ![current].left = H[target].right]
    ELSE [H EXCEPT ![H[target].right].parent = current, ![current].right = H[target].right]

\* tree_remove_by_node without "if up: up.parent = target.parent"
lift_nothing(H, target, up) == H

\* tree_remove_by_node: "if up: up.parent = target.parent"
lift(H, target, up) ==
    IF up # Null THEN [H EXCEPT ![up].parent = H[target].parent] ELSE H

\* tree_remove_by_node: "if target.parent: ..."
unhook(H, target, up) ==
    IF H[target].parent = Null THEN H
    ELSE IF H[H[target].parent].left = target
    THEN [H EXCEPT ![H[target].parent].left = up]
    ELSE [H EXCEPT ![H[target].parent].right = up]

\* tree_remove_by_node: "if target == self.root: self.root = up", then the levels
reroot(H, tree, target, up) ==
    IF target = tree.root
    THEN Result(update_tree_status(H, up), [tree EXCEPT !.root = up], "ok", target)
    ELSE Result(update_tree_status(H, tree.root), tree, "ok", target)

\* tree_remove_by_node from "if up:" on
splice(H, tree, target, up) == reroot(unhook(lift(H, target, up), target, up), tree, target, up)

\* tree_remove_by_node: the case of two children, once the loop has ended at current
splice_under(H, tree, target, current) ==
    IF current = Diverge THEN Result(H, tree, "hang", Null)
    ELSE splice(hang_right(H, target, current), tree, target, H[target].left)

\* tree_remove_by_node from "up = None" on
splice_out(H, tree, target) ==
    IF H[target].left # Null /\ H[target].right # Null
    THEN splice_under(H, tree, target, walk_left(H, target))
    ELSE IF H[target].left # Null THEN splice(H, tree, target, H[target].left)
    ELSE splice(H, tree, target, H[target].right)

RECURSIVE tree_remove_by_node(_, _, _)

\* tree_remove_by_node of a pending target, after its right child went
pending_done(r, target) ==
    IF r.out # "ok" THEN r ELSE splice_out(r.heap, r.tree, target)

\* tree_remove_by_node of a pending target, after its left child went
pending_right(r, target) ==
    IF r.out # "ok" THEN r
    ELSE IF r.heap[target].right # Null
    THEN pending_done(tree_remove_by_node(r.heap, r.tree, r.heap[target].right), target)
    ELSE splice_out(r.heap, r.tree, target)

\* BTree.tree_remove_by_node
tree_remove_by_node(H, tree, target) ==
    IF target = Null THEN Result(H, tree, "InvalidParameterValue", Null)
    ELSE IF H[target].status = "pending"
    THEN IF H[target].left # Null
         THEN pending_right(tree_remove_by_node(H, tree, H[target].left), target)
         ELSE pending_right(Result(H, tree, "ok", Null), target)
    ELSE splice_out(H, tree, target)

\* remove_by_peer_id without "del self.nodes[peer_id]"
forget_nothing(r, peer_id) == r

\* BTree.remove_by_peer_id: "del self.nodes[peer_id]"
forget(r, peer_id) ==
    IF r.out # "ok" THEN r
    ELSE [r EXCEPT !.tree.nodes = DelKey(r.tree.nodes, peer_id)]

\* BTree.remove_by_peer_id
remove_by_peer_id(H, tree, peer_id) ==
    IF peer_id \notin DOMAIN tree.nodes
    THEN Result(H, tree, "InvalidParameterValue", Null)
    ELSE forget(tree_remove_by_node(H, tree, tree.nodes[peer_id]), peer_id)

\* BTree.count
count(tree) == Cardinality(DOMAIN tree.nodes)

\* the order in which a dict hands out its keys
DictOrder(keys) == SeqOfSet(keys)

\* the identities of the nodes found under keys, in that order
identities(H, tree, keys) == [i \in 1..Len(keys) |-> identity(H, tree.nodes[keys[i]])]

\* get_node_parents without the loop over self.nodes.values(): the parent alone
parent_only(H, tree, node) ==
    IF H[node].peer_id \notin DOMAIN tree.nodes
    THEN Result(H, tree, "InvalidParameterValue", <<>>)
    ELSE IF H[node].parent = Null
    THEN Result(H, tree, "AttributeError", <<>>)
    ELSE Result(H, tree, "ok", <<identity(H, H[node].parent)>>)

\* BTree.get_node_parents; ret is the list of identities
get_node_parents(H, tree, node) ==
    IF H[node].peer_id \notin DOMAIN tree.nodes
    THEN Result(H, tree, "InvalidParameterValue", <<>>)
    ELSE IF H[node].parent = Null
    THEN Result(H, tree, "AttributeError", <<>>)
    ELSE Result(H, tree, "ok",
                <<identity(H, H[node].parent)>>
                \o identities(H, tree,
                       SelectSeq(DictOrder(DOMAIN tree.nodes),
                                 LAMBDA k : H[tree.nodes[k]].level = H[node].level - 1
                                            /\ node # H[node].parent)))

\* BTree.update_nodes: the pending target's right child goes
prune_right(r) ==
    IF r.out = "ok" /\ r.heap[r.ret].right # Null
    THEN Returning(tree_remove_by_node(r.heap, r.tree, r.heap[r.ret].right), r.ret)
    ELSE r

\* BTree.update_nodes: the pending target's left child goes
prune_left(r) ==
    IF r.heap[r.ret].left # Null
    THEN prune_right(Returning(tree_remove_by_node(r.heap, r.tree, r.heap[r.ret].left), r.ret))
    ELSE prune_right(r)

\* BTree.update_nodes from "if target.status == 'pending'" on; r.ret is target
prune(r) ==
    IF r.out # "ok" THEN r
    ELSE IF r.heap[r.ret].status = "pending" THEN prune_left(r)
    ELSE r

\* BTree.update_nodes; peer_id is never None on the routes that reach it
update_nodes(H, tree, peer_id, host, port, iqn, lun, node_status) ==
    IF peer_id \notin DOMAIN tree.nodes
    THEN prune(Returning(insert_by_node(Alloc(H, NewRef(H, peer_id),
                                              BTreeNode(peer_id, host, port, iqn, lun,
                                                        node_status, <<>>, FALSE)),
                                        tree, NewRef(H, peer_id)),
                         NewRef(H, peer_id)))
    ELSE prune(Result([H EXCEPT ![tree.nodes[peer_id]].peer_id = peer_id,
                                ![tree.nodes[peer_id]].host = host,
                                ![tree.nodes[peer_id]].port = port,
                                ![tree.nodes[peer_id]].iqn = iqn,
                                ![tree.nodes[peer_id]].lun = lun,
                                ![tree.nodes[peer_id]].status = node_status],
                      tree, "ok", tree.nodes[peer_id]))

----------------------------------------------------------------------------
(* BtreeExecutor.  The executor's state is a record E = [heap, volumes,     *)
(* host_to_volumes]; every method returns the state it leaves, its outcome  *)
(* and its return value.                                                    *)

Engine(H, vols, h2v) == [heap |-> H, volumes |-> vols, host_to_volumes |-> h2v]

EResult(E, out, ret) == [st |-> E, out |-> out, ret |-> ret]

\* BtreeExecutor.get_volumes_list, as a set of entries
get_volumes_list(E) ==
    {[id |-> v, count |-> count(E.volumes[v])] : v \in DOMAIN E.volumes}

\* the executor's state once a BTree method has run on the tree of volume_id
Put(E, volume_id, r) == [E EXCEPT !.heap = r.heap, !.volumes[volume_id] = r.tree]

\* add_host_bookkeeping: "if host_info is None: ..."
known_host(E, host) ==
    IF host \in DOMAIN E.host_to_volumes THEN E
    ELSE [E EXCEPT !.host_to_volumes =
              SetKey(E.host_to_volumes, host, [volume_list |-> EmptyMap, timestamp |-> Now])]

\* add_host_bookkeeping from "if peer_id in volumes_list" on
book(E, host, peer_id, node) ==
    IF peer_id \in DOMAIN E.host_to_volumes[host].volume_list
    THEN EResult(E, "Duplicate", Null)
    ELSE EResult([E EXCEPT !.host_to_volumes[host].volume_list =
                               SetKey(E.host_to_volumes[host].volume_list, peer_id, node)],
                 "ok", Null)

\* BtreeExecutor.add_host_bookkeeping
add_host_bookkeeping(E, host, peer_id, node) == book(known_host(E, host), host, peer_id, node)

\* BtreeExecutor.remove_host_bookkeeping
remove_host_bookkeeping(E, host, peer_id) ==
    IF host \notin DOMAIN E.host_to_volumes
    THEN EResult(E, "NotFound", Null)
    ELSE IF peer_id \notin DOMAIN E.host_to_volumes[host].volume_list
    THEN EResult(E, "NotFound", Null)
    ELSE EResult([E EXCEPT !.host_to_volumes[host].volume_list =
                               DelKey(E.host_to_volumes[host].volume_list, peer_id)],
                 "ok", Null)

\* insert_node_slot: "if volume_id not in self.volumes: self.volumes[volume_id] = BTree(volume_id)"
grown(E, volume_id, t) ==
    [E EXCEPT !.heap = t.heap, !.volumes = SetKey(E.volumes, volume_id, t.tree)]

known_volume(E, volume_id) ==
    IF volume_id \in DOMAIN E.volumes THEN E
    ELSE grown(E, volume_id, BTree(E.heap, volume_id))

\* insert_node_slot: the end of the try block, and "return target".  "except
\* Exception" swallows a failure, and "return target" then reads a local that
\* was never bound
slot_bound(bk, volume_id, peer_id) ==
    IF bk.out # "ok" THEN EResult(bk.st, "UnboundLocalError", Null)
    ELSE EResult(bk.st, "ok", bk.st.volumes[volume_id].nodes[peer_id])

\* insert_node_slot: the try block after insert_by_node
slot_booked(E, volume_id, host, peer_id, new_node, ins) ==
    IF ins.out # "ok" THEN EResult(Put(E, volume_id, ins), "UnboundLocalError", Null)
    ELSE slot_bound(add_host_bookkeeping(Put(E, volume_id, ins), host, peer_id, new_node),
                    volume_id, peer_id)

\* insert_node_slot: the else branch, new_node being the reference of the new object
slot_new(E, volume_id, host, peer_id, new_node) ==
    slot_booked(E, volume_id, host, peer_id, new_node,
                insert_by_node(Alloc(E.heap, new_node,
                                     BTreeNode(peer_id, host, NoneStr, NoneStr, NoneStr,
                                               "pending", volume_id, FALSE)),
                               E.volumes[volume_id], new_node))

\* insert_node_slot where the node that the tree holds is made pending again
slot_for_afresh(E, volume_id, host, peer_id) ==
    IF peer_id \in DOMAIN E.volumes[volume_id].nodes
    THEN EResult([E EXCEPT !.heap[E.volumes[volume_id].nodes[peer_id]].status = "pending"],
                 "ok", E.volumes[volume_id].nodes[peer_id])
    ELSE slot_new(E, volume_id, host, peer_id, NewRef(E.heap, peer_id))

\* insert_node_slot from "peer_id = utils.generate_uuid(False, host, volume_id)" on
slot_for(E, volume_id, host, peer_id) ==
    IF peer_id \in DOMAIN E.volumes[volume_id].nodes
    THEN EResult(E, "ok", E.volumes[volume_id].nodes[peer_id])
    ELSE slot_new(E, volume_id, host, peer_id, NewRef(E.heap, peer_id))

\* BtreeExecutor.insert_node_slot; the router always supplies volume_id and host
insert_node_slot(E, volume_id, host) ==
    slot_for(known_volume(E, volume_id), volume_id, host, generate_uuid(host, volume_id))

\* a BTree method's outcome as the executor's
Lifted(E, r) == EResult(E, r.out, r.ret)

\* BtreeExecutor.get_parents_info, the else branch, image_id being what
\* get_image_id_from_peerid gave
parents_in(E, target, image_id) ==
    IF image_id.out # "ok" THEN EResult(E, image_id.out, <<>>)
    ELSE IF image_id.ret \notin DOMAIN E.volumes THEN EResult(E, "KeyError", <<>>)
    ELSE Lifted(E, get_node_parents(E.heap, E.volumes[image_id.ret], target))

\* BtreeWithUncleExecutor.get_parents_info, the else branch
parents_with_uncle(E, parent, sibling) ==
    EResult(E, "ok",
            IF sibling # Null THEN <<identity(E.heap, parent), identity(E.heap, sibling)>>
            ELSE <<identity(E.heap, parent)>>)

\* get_parents_info without "if target.parent.fake_root: return []"
parents_under_root_too(E, executor, target) ==
    IF E.heap[target].parent = Null THEN EResult(E, "AttributeError", <<>>)
    ELSE IF executor = "btree_with_uncle"
    THEN parents_with_uncle(E, E.heap[target].parent,
                            get_sibling(E.heap, E.heap[target].parent))
    ELSE parents_in(E, target, get_image_id_from_peerid(E.heap[target].peer_id))

\* BtreeExecutor.get_parents_info / BtreeWithUncleExecutor.get_parents_info
get_parents_info(E, executor, target) ==
    IF E.heap[target].parent = Null THEN EResult(E, "AttributeError", <<>>)
    ELSE IF E.heap[E.heap[target].parent].fake_root THEN EResult(E, "ok", <<>>)
    ELSE IF executor = "btree_with_uncle"
    THEN parents_with_uncle(E, E.heap[target].parent,
                            get_sibling(E.heap, E.heap[target].parent))
    ELSE parents_in(E, target, get_image_id_from_peerid(E.heap[target].peer_id))

\* get_volume_parents: the dict it returns
parents_reply(p, peer_id) ==
    IF p.out # "ok" THEN EResult(p.st, p.out, Null)
    ELSE EResult(p.st, "ok", [peer_id |-> peer_id, parents |-> p.ret])

\* get_volume_parents after insert_node_slot
parents_of_slot(t, executor) ==
    IF t.out # "ok" THEN EResult(t.st, t.out, Null)
    ELSE parents_reply(get_parents_info(t.st, executor, t.ret), t.st.heap[t.ret].peer_id)

\* BtreeExecutor.get_volume_parents
get_volume_parents(E, executor, volume_id, host) ==
    parents_of_slot(insert_node_slot(E, volume_id, host), executor)

\* add_volume_metadata: "return target.identity()"
metadata_reply(E, volume_id, r) ==
    IF r.out # "ok" THEN EResult(Put(E, volume_id, r), r.out, Null)
    ELSE EResult(Put(E, volume_id, r), "ok", identity(r.heap, r.ret))

\* add_volume_metadata with status='pending' handed to update_nodes
add_volume_metadata_pending(E, volume_id, peer_id, body) ==
    IF volume_id \notin DOMAIN E.volumes THEN EResult(E, "NotFound", Null)
    ELSE metadata_reply(E, volume_id,
             update_nodes(E.heap, E.volumes[volume_id],
                          IF peer_id = NoneName THEN generate_uuid(body.host, volume_id)
                          ELSE peer_id,
                          body.host, body.port, body.iqn, body.lun, "pending"))

\* add_volume_metadata that makes the tree of an image it does not know
add_volume_metadata_lazy(E, volume_id, peer_id, body) ==
    metadata_reply(known_volume(E, volume_id), volume_id,
        update_nodes(known_volume(E, volume_id).heap,
                     known_volume(E, volume_id).volumes[volume_id],
                     IF peer_id = NoneName THEN generate_uuid(body.host, volume_id)
                     ELSE peer_id,
                     body.host, body.port, body.iqn, body.lun, "OK"))

\* BtreeExecutor.add_volume_metadata; body holds host, port, iqn and lun
add_volume_metadata(E, volume_id, peer_id, body) ==
    IF volume_id \notin DOMAIN E.volumes THEN EResult(E, "NotFound", Null)
    ELSE metadata_reply(E, volume_id,
             update_nodes(E.heap, E.volumes[volume_id],
                          IF peer_id = NoneName THEN generate_uuid(body.host, volume_id)
                          ELSE peer_id,
                          body.host, body.port, body.iqn, body.lun, "OK"))

\* delete_volume_metadata: what remove_by_peer_id leaves, InvalidParameterValue
\* turned into NotFound
unlinked(E, volume_id, r) ==
    IF r.out = "InvalidParameterValue" THEN EResult(Put(E, volume_id, r), "NotFound", Null)
    ELSE EResult(Put(E, volume_id, r), r.out, Null)

\* delete_volume_metadata after remove_host_bookkeeping
unbooked(bk, volume_id, peer_id) ==
    IF bk.out # "ok" THEN bk
    ELSE unlinked(bk.st, volume_id,
                  remove_by_peer_id(bk.st.heap, bk.st.volumes[volume_id], peer_id))

\* delete_volume_metadata without the call of remove_host_bookkeeping
delete_unbound(E, volume_id, peer_id) ==
    IF peer_id = NoneName THEN EResult(E, "InvalidParameterValue", Null)
    ELSE IF volume_id \notin DOMAIN E.volumes THEN EResult(E, "NotFound", Null)
    ELSE IF peer_id \notin DOMAIN E.volumes[volume_id].nodes THEN EResult(E, "NotFound", Null)
    ELSE unbooked(EResult(E, "ok", Null), volume_id, peer_id)

\* delete_volume_metadata without "except exception.InvalidParameterValue"
delete_untranslated(E, volume_id, peer_id) ==
    IF peer_id = NoneName THEN EResult(E, "InvalidParameterValue", Null)
    ELSE IF volume_id \notin DOMAIN E.volumes THEN EResult(E, "NotFound", Null)
    ELSE IF peer_id \notin DOMAIN E.volumes[volume_id].nodes
    THEN EResult(E, "InvalidParameterValue", Null)
    ELSE unbooked(remove_host_bookkeeping(E, E.heap[E.volumes[volume_id].nodes[peer_id]].host,
                                          peer_id),
                  volume_id, peer_id)

\* BtreeExecutor.delete_volume_metadata
delete_volume_metadata(E, volume_id, peer_id) ==
    IF peer_id = NoneName THEN EResult(E, "InvalidParameterValue", Null)
    ELSE IF volume_id \notin DOMAIN E.volumes THEN EResult(E, "NotFound", Null)
    ELSE IF peer_id \notin DOMAIN E.volumes[volume_id].nodes THEN EResult(E, "NotFound", Null)
    ELSE unbooked(remove_host_bookkeeping(E, E.heap[E.volumes[volume_id].nodes[peer_id]].host,
                                          peer_id),
                  volume_id, peer_id)

RECURSIVE status_walk(_, _, _, _, _)

\* the turn of the loop of update_status with 'parents': [] in the entry
status_step_blank(p, executor, volume_list, keys, volume_info) ==
    IF p.out # "ok" THEN EResult(p.st, p.out, <<>>)
    ELSE status_walk(p.st, executor, volume_list, Tail(keys),
                     Append(volume_info, [peer_id |-> Head(keys), parents |-> <<>>]))

\* update_status: one turn of the loop, p being what get_parents_info gave
status_step(p, executor, volume_list, keys, volume_info) ==
    IF p.out # "ok" THEN EResult(p.st, p.out, <<>>)
    ELSE status_walk(p.st, executor, volume_list, Tail(keys),
                     Append(volume_info, [peer_id |-> Head(keys), parents |-> p.ret]))

\* the loop of BtreeExecutor.update_status over volume_list.iteritems()
status_walk(E, executor, volume_list, keys, volume_info) ==
    IF keys = <<>> THEN EResult(E, "ok", volume_info)
    ELSE status_step(get_parents_info(E, executor, volume_list[Head(keys)]),
                     executor, volume_list, keys, volume_info)

\* update_status that makes an entry for a host it does not know
update_status_enrol(E, executor, host) ==
    status_walk([known_host(E, host) EXCEPT !.host_to_volumes[host].timestamp = Now], executor,
                known_host(E, host).host_to_volumes[host].volume_list,
                DictOrder(DOMAIN known_host(E, host).host_to_volumes[host].volume_list), <<>>)

\* BtreeExecutor.update_status
update_status(E, executor, host) ==
    IF host \notin DOMAIN E.host_to_volumes THEN EResult(E, "ok", <<>>)
    ELSE status_walk([E EXCEPT !.host_to_volumes[host].timestamp = Now], executor,
                     E.host_to_volumes[host].volume_list,
                     DictOrder(DOMAIN E.host_to_volumes[host].volume_list), <<>>)

RECURSIVE kick_peers(_, _, _)

\* kickoff_dead_node: after vol_tree.remove_by_peer_id(peer_id)
kick_removed(E, host, keys, volume_id, r) ==
    IF r.out # "ok" THEN EResult(Put(E, volume_id, r), r.out, Null)
    ELSE kick_peers(Put(E, volume_id, r), host, Tail(keys))

\* kickoff_dead_node: "vol_tree = self.volumes[utils.get_image_id_from_peerid(peer_id)]"
kick_tree(E, host, keys, image_id) ==
    IF image_id.out # "ok" THEN EResult(E, image_id.out, Null)
    ELSE IF image_id.ret \notin DOMAIN E.volumes THEN EResult(E, "KeyError", Null)
    ELSE kick_removed(E, host, keys, image_id.ret,
                      remove_by_peer_id(E.heap, E.volumes[image_id.ret], Head(keys)))

\* kickoff_dead_node: after remove_host_bookkeeping(host, peer_id)
kick_unbooked(bk, host, keys) ==
    IF bk.out # "ok" THEN bk
    ELSE kick_tree(bk.st, host, keys, get_image_id_from_peerid(Head(keys)))

\* kickoff_dead_node: the loop over volume_list.keys() of one host
kick_peers(E, host, keys) ==
    IF keys = <<>> THEN EResult(E, "ok", Null)
    ELSE kick_unbooked(remove_host_bookkeeping(E, host, Head(keys)), host, keys)

\* the test of kickoff_dead_node with the operands of the subtraction exchanged
expired_backwards(now_time, last_save_time) ==
    Seconds(last_save_time - now_time) > MAX_POLLING_TIME

\* the test of kickoff_dead_node with twice the time allowed
expired_late(now_time, last_save_time) ==
    Seconds(now_time - last_save_time) > 2 * MAX_POLLING_TIME

\* whether the scanner, at now_time, takes a host that was last seen at last_save_time
expired(now_time, last_save_time) ==
    Seconds(now_time - last_save_time) > MAX_POLLING_TIME

RECURSIVE kick_hosts(_, _, _)

\* kickoff_dead_node: "del self.host_to_volumes[host]", and on to the next host
kick_host_done(k, now_time, hosts) ==
    IF k.out # "ok" THEN k
    ELSE kick_hosts([k.st EXCEPT !.host_to_volumes = DelKey(k.st.host_to_volumes, Head(hosts))],
                    now_time, Tail(hosts))

\* kickoff_dead_node: one pass of the loop over host_to_volumes.keys(), in the order hosts
kick_hosts(E, now_time, hosts) ==
    IF hosts = <<>> THEN EResult(E, "ok", Null)
    ELSE IF expired(now_time, E.host_to_volumes[Head(hosts)].timestamp)
    THEN kick_host_done(kick_peers(E, Head(hosts),
                                   DictOrder(DOMAIN E.host_to_volumes[Head(hosts)].volume_list)),
                        now_time, hosts)
    ELSE kick_hosts(E, now_time, Tail(hosts))

\* the orders in which a dict may hand out the keys in S
Orders(S) ==
    {q \in [1..Cardinality(S) -> S] : \A i, j \in 1..Cardinality(S) : i # j => q[i] # q[j]}

----------------------------------------------------------------------------
(* What the garbage collector leaves of the heap *)

RECURSIVE Closure(_, _)
Closure(H, S) ==
    IF \A r \in S : {H[r].left, H[r].right, H[r].parent} \subseteq S \cup {Null} THEN S
    ELSE Closure(H, (S \cup {H[r].left : r \in S} \cup {H[r].right : r \in S}
                       \cup {H[r].parent : r \in S}) \ {Null})

Roots(E) ==
    (UNION {{E.volumes[v].root} \cup Range(E.volumes[v].nodes) : v \in DOMAIN E.volumes}
     \cup UNION {Range(E.host_to_volumes[h].volume_list) : h \in DOMAIN E.host_to_volumes})
    \ {Null}

Kept_heap(E, live) == [E EXCEPT !.heap = [r \in live |-> E.heap[r]]]

Collect(E) == Kept_heap(E, Closure(E.heap, Roots(E)))

----------------------------------------------------------------------------
(* The running service *)

TheEngine == Engine(heap, volumes, host_to_volumes)

Entry(op, volume_id, peer_id, host, out, ret) ==
    [op |-> op, volume_id |-> volume_id, peer_id |-> peer_id, host |-> host,
     out |-> out, ret |-> ret]

Overflow == <<Entry("overflow", NoneName, NoneName, NoneName, "ok", Null)>>

Overflowed(h) == Len(h) = 1 /\ h[1].op = "overflow"

Log(h, entry) ==
    IF Overflowed(h) \/ Len(h) >= MaxHist THEN Overflow ELSE Append(h, entry)

\* the state a call leaves: what it wrote, less what nothing refers to any more
Kept(E) ==
    /\ heap' = E.heap
    /\ volumes' = E.volumes
    /\ host_to_volumes' = E.host_to_volumes

\* what a call leaves behind, and whether it spins for ever
Stored(r) ==
    /\ Kept(Collect(r.st))
    /\ hung' = (r.out = "hang")

\* a request served with the result r
Served(op, volume_id, peer_id, host, r) ==
    /\ Stored(r)
    /\ hist' = Log(hist, Entry(op, volume_id, peer_id, host, r.out, r.ret))

Spawned == [st |-> "spawned", left |-> 0]
Dead == [st |-> "dead", left |-> 0]
Waiting(n) == [st |-> "waiting", left |-> n]

\* a greenlet inside a call: the call and its arguments, where it stands (pc), its
\* local target, the hosts a scanner pass has still to visit (todo) out of those it
\* set out to visit (order), and the executor's state when the call began
Activation(op, volume_id, peer_id, host, pc, target, todo, order, began) ==
    [op |-> op, volume_id |-> volume_id, peer_id |-> peer_id, host |-> host, pc |-> pc,
     target |-> target, todo |-> todo, order |-> order, began |-> began]

\* the hub: no greenlet of a call holds the processor
Idle ==
    Activation("hub", NoneName, NoneName, NoneName, "hub", Null, <<>>, <<>>,
               Engine(<<>>, <<>>, <<>>))

\* a new greenlet may take its first step: nothing spins, and no other holds the processor
Ready == ~hung /\ cpu = Idle

Init ==
    /\ heap = [r \in {} |-> Null]
    /\ volumes = [v \in {} |-> Null]
    /\ host_to_volumes = [h \in {} |-> Null]
    /\ default_executor = "btree"
    /\ status = "init"
    /\ started = FALSE
    /\ scanners = EmptyBag
    /\ blocked = {}
    /\ hung = FALSE
    /\ hist = <<>>
    /\ inflight = {}
    /\ cpu = Idle

\* volumes.Controller.query once the scanning thread runs
Query(volume_id, host) ==
    /\ Ready
    /\ status = "running"
    /\ Served("query", volume_id, NoneName, host,
              get_volume_parents(TheEngine, default_executor, volume_id, host))
    /\ UNCHANGED <<default_executor, inflight, cpu, status, started, scanners, blocked>>

\* volumes.Controller.query while status is 'init': Thread.start() spawns the
\* scanner and waits for it to signal that it has started
QueryStart(volume_id, host, room) ==
    /\ Ready
    /\ status = "init"
    /\ ~started
    /\ Cardinality(blocked) < room
    /\ [volume_id |-> volume_id, host |-> host] \notin blocked
    /\ scanners' = scanners (+) SetToBag({Spawned})
    /\ blocked' = blocked \cup {[volume_id |-> volume_id, host |-> host]}
    /\ UNCHANGED <<heap, volumes, host_to_volumes, default_executor, inflight, cpu, status, started,
                   hung, hist>>

\* volumes.Controller.query while status is 'init' and the thread has started:
\* Thread.start() raises RuntimeError
QueryRefused(volume_id, host) ==
    /\ Ready
    /\ status = "init"
    /\ started
    /\ hist' = Log(hist, Entry("query", volume_id, NoneName, host, "RuntimeError", Null))
    /\ UNCHANGED <<heap, volumes, host_to_volumes, default_executor, inflight, cpu, status, started,
                   scanners, blocked, hung>>

\* a query that waited in start() goes on: status = 'running', then the executor
QueryResume(volume_id, host) ==
    /\ Ready
    /\ started
    /\ [volume_id |-> volume_id, host |-> host] \in blocked
    /\ blocked' = blocked \ {[volume_id |-> volume_id, host |-> host]}
    /\ status' = "running"
    /\ Served("query", volume_id, NoneName, host,
              get_volume_parents(TheEngine, default_executor, volume_id, host))
    /\ UNCHANGED <<default_executor, inflight, cpu, started, scanners>>

\* volumes.Controller.register
Register(volume_id, peer_id, body) ==
    /\ Ready
    /\ Served("register", volume_id, peer_id, body.host,
              add_volume_metadata(TheEngine, volume_id, peer_id, body))
    /\ UNCHANGED <<default_executor, inflight, cpu, status, started, scanners, blocked>>

\* volumes.Controller.remove
Remove(volume_id, peer_id) ==
    /\ Ready
    /\ Served("remove", volume_id, peer_id, NoneName,
              delete_volume_metadata(TheEngine, volume_id, peer_id))
    /\ UNCHANGED <<default_executor, inflight, cpu, status, started, scanners, blocked>>

\* volumes.Controller.index without a volume_id
List ==
    /\ Ready
    /\ hist' = Log(hist, Entry("list", NoneName, NoneName, NoneName, "ok",
                               get_volumes_list(TheEngine)))
    /\ UNCHANGED <<heap, volumes, host_to_volumes, default_executor, inflight, cpu, status, started,
                   scanners, blocked, hung>>

\* members.Controller.heartbeat
Heartbeat(host) ==
    /\ Ready
    /\ Served("heartbeat", NoneName, NoneName, host,
              update_status(TheEngine, default_executor, host))
    /\ UNCHANGED <<default_executor, inflight, cpu, status, started, scanners, blocked>>

\* the hosts that a scanner pass with the result r has taken
Evicted(r) == DOMAIN host_to_volumes \ DOMAIN r.st.host_to_volumes

\* the scanner greenlet after a pass: it waits, or an exception has ended it; hist
\* keeps the passes that took a host or failed
Scanned(before, r) ==
    /\ Stored(r)
    /\ hist' = IF r.out = "ok" /\ Evicted(r) = {} THEN hist
               ELSE Log(hist, Entry("scan", NoneName, NoneName, NoneName, r.out, Evicted(r)))
    /\ scanners' = (scanners (-) SetToBag({before}))
                   (+) SetToBag({IF r.out = "ok" THEN Waiting(MAX_POLLING_TIME) ELSE Dead})

\* one turn of the "while True" loop of kickoff_dead_node, up to timeout.wait
Pass(before, hosts) == Scanned(before, kick_hosts(TheEngine, Now, hosts))

\* ScanningThread.run starts: Thread.__bootstrap sets __started, then the first pass
ScannerBoot ==
    /\ Ready
    /\ BagIn(Spawned, scanners)
    /\ started' = TRUE
    /\ \E hosts \in Orders(DOMAIN host_to_volumes) : Pass(Spawned, hosts)
    /\ UNCHANGED <<default_executor, inflight, cpu, status, blocked>>

\* timeout.wait(MAX_POLLING_TIME) returns, and the next pass runs
ScannerPass ==
    /\ Ready
    /\ BagIn(Waiting(0), scanners)
    /\ \E hosts \in Orders(DOMAIN host_to_volumes) : Pass(Waiting(0), hosts)
    /\ UNCHANGED <<default_executor, inflight, cpu, status, started, blocked>>

\* a scanner greenlet, d seconds later
Later(s, d) ==
    IF s.st = "waiting"
    THEN Waiting(IF s.left > d THEN s.left - d ELSE 0)
    ELSE s

RECURSIVE SumCopies(_, _)
SumCopies(B, S) ==
    IF S = {} THEN 0
    ELSE CopiesIn(CHOOSE x \in S : TRUE, B) + SumCopies(B, S \ {CHOOSE x \in S : TRUE})

LaterAll(B, d) ==
    [t \in {Later(s, d) : s \in BagToSet(B)} |->
        SumCopies(B, {s \in BagToSet(B) : Later(s, d) = t})]

\* d seconds pass
Tick(d) ==
    /\ Ready
    /\ \A h \in DOMAIN host_to_volumes :
           Now - (host_to_volumes[h].timestamp - d) <= MaxAge
    /\ host_to_volumes' = [h \in DOMAIN host_to_volumes |->
           [host_to_volumes[h] EXCEPT !.timestamp = @ - d]]
    /\ scanners' = LaterAll(scanners, d)
    /\ UNCHANGED <<heap, volumes, default_executor, inflight, cpu, status, started, blocked, hung, hist>>

\* the requests of the hosts Hs for the images Vs, where a register for the peer
\* id of host h carries the host field h or one among Others; and the scanner
Requests(Hs, Vs, Others, room) ==
    \/ \E v \in Vs, h \in Hs : Query(v, h)
    \/ \E v \in Vs, h \in Hs : QueryStart(v, h, room)
    \/ \E v \in Vs, h \in Hs : QueryRefused(v, h)
    \/ \E v \in Vs, h \in Hs : QueryResume(v, h)
    \/ \E v \in Vs, h \in Hs : \E b \in BodiesOf({h} \cup Others) : Register(v, h \o v, b)
    \/ \E v \in Vs, h \in Hs : Remove(v, h \o v)
    \/ \E h \in Hs : Heartbeat(h)
    \/ List
    \/ ScannerBoot
    \/ ScannerPass

Next ==
    \/ Requests(Hosts, Images, {}, 1)
    \/ Tick(CoarseStep)

Spec == Init /\ [][Next]_vars

\* two hosts and a clock that advances in steps shorter than MAX_POLLING_TIME
FineHosts == {<<"h1">>, <<"h2">>}

NextFine ==
    \/ Requests(FineHosts, Images, {}, 1)
    \/ Tick(FineStep)

SpecFine == Init /\ [][NextFine]_vars

\* four hosts that query one image, two of which go on to register
CrowdHosts == {<<"h1">>, <<"h2">>, <<"h3">>, <<"h4">>}
Registrants == {<<"h1">>, <<"h2">>}

NextCrowd ==
    \/ \E v \in Images, h \in CrowdHosts : Query(v, h)
    \/ \E v \in Images, h \in CrowdHosts : QueryStart(v, h, 1)
    \/ \E v \in Images, h \in CrowdHosts : QueryRefused(v, h)
    \/ \E v \in Images, h \in CrowdHosts : QueryResume(v, h)
    \/ \E v \in Images, h \in Registrants : \E b \in BodiesOf({h}) : Register(v, h \o v, b)
    \/ \E v \in Images, h \in Registrants : Remove(v, h \o v)
    \/ ScannerBoot
    \/ ScannerPass
    \/ Tick(CoarseStep)

SpecCrowd == Init /\ [][NextCrowd]_vars

\* the service started with default_executor = btree_with_uncle
InitUncle ==
    /\ heap = [r \in {} |-> Null]
    /\ volumes = [v \in {} |-> Null]
    /\ host_to_volumes = [h \in {} |-> Null]
    /\ default_executor = "btree_with_uncle"
    /\ status = "init"
    /\ started = FALSE
    /\ scanners = EmptyBag
    /\ blocked = {}
    /\ hung = FALSE
    /\ hist = <<>>
    /\ inflight = {}
    /\ cpu = Idle

\* the requests of three hosts while no time passes
NextUncle ==
    \/ \E v \in Images, h \in Hosts : Query(v, h)
    \/ \E v \in Images, h \in Hosts : QueryStart(v, h, 1)
    \/ \E v \in Images, h \in Hosts : QueryRefused(v, h)
    \/ \E v \in Images, h \in Hosts : QueryResume(v, h)
    \/ \E v \in Images, h \in Hosts : \E b \in BodiesOf({h}) : Register(v, h \o v, b)
    \/ \E v \in Images, h \in Hosts : Remove(v, h \o v)
    \/ \E h \in Hosts : Heartbeat(h)
    \/ ScannerBoot

SpecUncle == InitUncle /\ [][NextUncle]_vars

\* an image id with a colon in it, "v:x": the route /volumes/query/{volume_id}
\* takes any path segment
ColonImage == <<"v", "x">>

\* two hosts that ask for the image "v:x", and the scanner
NextColon ==
    \/ Requests(FineHosts, {ColonImage}, {}, 1)
    \/ Tick(CoarseStep)

SpecColon == Init /\ [][NextColon]_vars

----------------------------------------------------------------------------
(* The same calls, one state access at a time.  The handlers and the scanner   *)
(* are greenlets (cmd/api.py monkey-patches thread); a greenlet keeps the      *)
(* processor from one blocking call to the next.  The code takes no lock.      *)

\* whether a greenlet gives up the processor after the step it takes at pc: it
\* does where the code blocks, in Thread.start() and in Event.wait(), or returns
switches_anywhere(op, pc) == TRUE

switches(op, pc) == pc \in {"start", "wait", "return"}

\* the greenlet a may take a step
Runs(a) == ~hung /\ a \in inflight /\ cpu \in {a, Idle}

\* who holds the processor once the greenlet a has taken its step at pc
After(a, pc) == IF switches(a.op, pc) THEN Idle ELSE a

\* the call went through its first state access with the result r, and goes on as a
Going(a, r) ==
    /\ Stored(r)
    /\ hist' = hist
    /\ inflight' = inflight \cup {a}
    /\ cpu' = After(a, "enter")

\* the call of op began with the result r of its first state access; it ends there
\* if that raised, and otherwise goes on at pc
Entered(op, volume_id, peer_id, host, pc, r) ==
    IF r.out # "ok"
    THEN Served(op, volume_id, peer_id, host, r) /\ UNCHANGED <<inflight, cpu>>
    ELSE Going(Activation(op, volume_id, peer_id, host, pc, r.ret, <<>>, <<>>, TheEngine), r)

\* the call of the greenlet a returns r
Left(a, r) ==
    /\ Served(a.op, a.volume_id, a.peer_id, a.host, r)
    /\ inflight' = inflight \ {a}
    /\ cpu' = Idle

\* volumes.Controller.query up to the return of insert_node_slot
QuerySlot(volume_id, host) ==
    /\ Ready
    /\ \/ status = "running"
       \/ started /\ [volume_id |-> volume_id, host |-> host] \in blocked
    /\ status' = "running"
    /\ blocked' = blocked \ {[volume_id |-> volume_id, host |-> host]}
    /\ Entered("query", volume_id, NoneName, host, "parents",
               insert_node_slot(TheEngine, volume_id, host))
    /\ UNCHANGED <<default_executor, started, scanners>>

\* volumes.Controller.query from get_parents_info on
QueryParentsBy(a) ==
    /\ Runs(a)
    /\ a.op = "query"
    /\ Left(a, parents_reply(get_parents_info(TheEngine, default_executor, a.target),
                             heap[a.target].peer_id))
    /\ UNCHANGED <<default_executor, status, started, scanners, blocked>>

QueryParents == \E a \in inflight : QueryParentsBy(a)

\* volumes.Controller.remove up to the return of remove_host_bookkeeping
RemoveUnbind(volume_id, peer_id) ==
    /\ Ready
    /\ IF volume_id \in DOMAIN volumes /\ peer_id \in DOMAIN volumes[volume_id].nodes
       THEN Entered("remove", volume_id, peer_id, NoneName, "unlink",
                    remove_host_bookkeeping(TheEngine,
                                            heap[volumes[volume_id].nodes[peer_id]].host,
                                            peer_id))
       ELSE /\ Served("remove", volume_id, peer_id, NoneName,
                      delete_volume_metadata(TheEngine, volume_id, peer_id))
            /\ UNCHANGED <<inflight, cpu>>
    /\ UNCHANGED <<default_executor, status, started, scanners, blocked>>

\* volumes.Controller.remove from vol_tree.remove_by_peer_id on
RemoveUnlinkBy(a) ==
    /\ Runs(a)
    /\ a.op = "remove"
    /\ Left(a, unlinked(TheEngine, a.volume_id,
                        remove_by_peer_id(heap, volumes[a.volume_id], a.peer_id)))
    /\ UNCHANGED <<default_executor, status, started, scanners, blocked>>

RemoveUnlink == \E a \in inflight : RemoveUnlinkBy(a)

\* members.Controller.heartbeat up to the assignment of the timestamp
HeartbeatStamp(host) ==
    /\ Ready
    /\ IF host \in DOMAIN host_to_volumes
       THEN Entered("heartbeat", NoneName, NoneName, host, "parents",
                    EResult([TheEngine EXCEPT !.host_to_volumes[host].timestamp = Now],
                            "ok", Null))
       ELSE /\ Served("heartbeat", NoneName, NoneName, host,
                      update_status(TheEngine, default_executor, host))
            /\ UNCHANGED <<inflight, cpu>>
    /\ UNCHANGED <<default_executor, status, started, scanners, blocked>>

\* members.Controller.heartbeat: the loop over volume_list.iteritems()
HeartbeatParentsBy(a) ==
    /\ Runs(a)
    /\ a.op = "heartbeat"
    /\ Left(a, status_walk(TheEngine, default_executor,
                           host_to_volumes[a.host].volume_list,
                           DictOrder(DOMAIN host_to_volumes[a.host].volume_list), <<>>))
    /\ UNCHANGED <<default_executor, status, started, scanners, blocked>>

HeartbeatParents == \E a \in inflight : HeartbeatParentsBy(a)

Scanning == [st |-> "scanning", left |-> 0]

\* kickoff_dead_node: now_time and self.host_to_volumes.keys(), in the order hosts
PassBegin(before, hosts) ==
    /\ Ready
    /\ BagIn(before, scanners)
    /\ started' = TRUE
    /\ scanners' = (scanners (-) SetToBag({before})) (+) SetToBag({Scanning})
    /\ Going(Activation("scan", NoneName, NoneName, NoneName, "host", Null, hosts, hosts,
                        TheEngine),
             EResult(TheEngine, "ok", Null))
    /\ UNCHANGED <<default_executor, status, blocked>>

\* the scanner's pass may begin: the thread was spawned, or its wait is over
PassStart ==
    \E before \in {Spawned, Waiting(0)}, hosts \in Orders(DOMAIN host_to_volumes) :
        PassBegin(before, hosts)

\* kickoff_dead_node: the pass of the greenlet a took its next host, with the result r
Visited(a, r) ==
    /\ Stored(r)
    /\ IF r.out # "ok"
       THEN /\ hist' = Log(hist, Entry("scan", NoneName, NoneName, NoneName, r.out,
                                       DOMAIN a.began.host_to_volumes
                                           \ DOMAIN r.st.host_to_volumes))
            /\ scanners' = (scanners (-) SetToBag({Scanning})) (+) SetToBag({Dead})
            /\ inflight' = inflight \ {a}
            /\ cpu' = Idle
       ELSE /\ hist' = hist
            /\ scanners' = scanners
            /\ inflight' = (inflight \ {a}) \cup {[a EXCEPT !.todo = Tail(a.todo)]}
            /\ cpu' = After([a EXCEPT !.todo = Tail(a.todo)], "host")

\* kickoff_dead_node: one turn of the loop over the hosts
PassHostBy(a) ==
    /\ Runs(a)
    /\ a.op = "scan"
    /\ a.todo # <<>>
    /\ Visited(a, kick_hosts(TheEngine, Now, <<Head(a.todo)>>))
    /\ UNCHANGED <<default_executor, status, started, blocked>>

PassHost == \E a \in inflight : PassHostBy(a)

\* kickoff_dead_node: timeout.wait(executor.MAX_POLLING_TIME)
PassWaitBy(a) ==
    /\ Runs(a)
    /\ a.op = "scan"
    /\ a.todo = <<>>
    /\ hist' = IF DOMAIN a.began.host_to_volumes = DOMAIN host_to_volumes THEN hist
               ELSE Log(hist, Entry("scan", NoneName, NoneName, NoneName, "ok",
                                    DOMAIN a.began.host_to_volumes \ DOMAIN host_to_volumes))
    /\ scanners' = (scanners (-) SetToBag({Scanning}))
                   (+) SetToBag({Waiting(MAX_POLLING_TIME)})
    /\ inflight' = inflight \ {a}
    /\ cpu' = Idle
    /\ UNCHANGED <<heap, volumes, host_to_volumes, default_executor, status, started,
                   blocked, hung>>

PassWait == \E a \in inflight : PassWaitBy(a)

StepHosts == {<<"h1">>, <<"h2">>, <<"h3">>}

NextSteps ==
    \/ \E v \in Images, h \in StepHosts : QueryStart(v, h, 1)
    \/ \E v \in Images, h \in StepHosts : QueryRefused(v, h)
    \/ \E v \in Images, h \in StepHosts : QuerySlot(v, h)
    \/ QueryParents
    \/ \E v \in Images, h \in Registrants : \E b \in BodiesOf({h}) : Register(v, h \o v, b)
    \/ \E v \in Images, h \in Registrants : RemoveUnbind(v, h \o v)
    \/ RemoveUnlink
    \/ \E h \in StepHosts : HeartbeatStamp(h)
    \/ HeartbeatParents
    \/ List
    \/ PassStart
    \/ PassHost
    \/ PassWait
    \/ Tick(CoarseStep)

SpecSteps == Init /\ [][NextSteps]_vars

----------------------------------------------------------------------------
(* Properties *)

\* what a query by host h for image v returns in the present state, and the
\* state it leaves
QueryNow(v, h) == get_volume_parents(TheEngine, default_executor, v, h)

\* entry e of hist is a query by host h for image v that reached the executor
QueryEntry(e, v, h) ==
    e.op = "query" /\ e.volume_id = v /\ e.host = h /\ e.out # "RuntimeError"

\* the node of host h in the tree of image v
NodeOf(v, h) == volumes[v].nodes[generate_uuid(h, v)]

\* the tree of image v holds the root and the nodes of the hosts Hs, and no other
TreeOf(v, Hs) ==
    /\ v \in DOMAIN volumes
    /\ DOMAIN volumes[v].nodes = {random_uuid(v)} \cup {generate_uuid(h, v) : h \in Hs}

\* the tree that two queries by h1 and h2 build: h1 left and h2 right under the root
TwoUnderRoot(v, h1, h2) ==
    /\ TreeOf(v, {h1, h2})
    /\ heap[volumes[v].root].left = NodeOf(v, h1)
    /\ heap[volumes[v].root].right = NodeOf(v, h2)

\* C1: in every reachable state, a query by any host for any image returns a
\* result {peer_id, parents}, and the host's node is in the image's tree afterwards.
C1_QueryNeverFails ==
    ~hung =>
        \A v \in Images, h \in Hosts :
            /\ QueryNow(v, h).out = "ok"
            /\ QueryNow(v, h).ret.peer_id = generate_uuid(h, v)
            /\ generate_uuid(h, v) \in DOMAIN QueryNow(v, h).st.volumes[v].nodes

SomeRoom(v) ==
    \E n \in Range(volumes[v].nodes) :
        heap[n].status = "OK" /\ (heap[n].left = Null \/ heap[n].right = Null)

\* C3 as the specification states it: tree_find_available_slot returns None only
\* when every node of the tree is pending, hence never in a tree that can arise.
C3_SlotNeverNull ==
    \A v \in DOMAIN volumes :
        /\ tree_find_available_slot(heap, volumes[v].root) # Null
        /\ tree_find_available_slot(heap, volumes[v].root) = Null
               => \A n \in Range(volumes[v].nodes) : heap[n].status = "pending"

\* C3, amended: tree_find_available_slot returns None exactly when no node of the
\* tree has status OK and a free child (which does arise: a root with two pending
\* children); otherwise it returns a node with status OK and a free child.
C3_SlotNullIffNoRoom ==
    \A v \in DOMAIN volumes :
        IF SomeRoom(v)
        THEN /\ tree_find_available_slot(heap, volumes[v].root) \in Range(volumes[v].nodes)
             /\ heap[tree_find_available_slot(heap, volumes[v].root)].status = "OK"
             /\ \/ heap[tree_find_available_slot(heap, volumes[v].root)].left = Null
                \/ heap[tree_find_available_slot(heap, volumes[v].root)].right = Null
        ELSE tree_find_available_slot(heap, volumes[v].root) = Null

\* a tree whose root is OK and where the search finds nothing
C3_Witness ==
    \E v \in DOMAIN volumes :
        /\ heap[volumes[v].root].status = "OK"
        /\ tree_find_available_slot(heap, volumes[v].root) = Null

\* C4: from an empty engine the first query(v, h1) returns the peer id h1:v with
\* no parents and the tree of v then has 2 nodes; a second query(v, h2) by another
\* host returns h2:v with no parents, the tree has 3 nodes, and the nodes of h1
\* and h2 are the left and the right child of the root.
C4_FirstTwoQueries ==
    \A v \in Images, h1, h2 \in Hosts :
        /\ (Len(hist) >= 1 /\ QueryEntry(hist[1], v, h1))
           => /\ hist[1].out = "ok"
              /\ hist[1].ret = [peer_id |-> generate_uuid(h1, v), parents |-> <<>>]
        /\ (Len(hist) = 1 /\ QueryEntry(hist[1], v, h1))
           => /\ TreeOf(v, {h1})
              /\ get_volumes_list(TheEngine) = {[id |-> v, count |-> 2]}
        /\ (Len(hist) = 2 /\ QueryEntry(hist[1], v, h1) /\ hist[2].op = "list")
           => hist[2].ret = {[id |-> v, count |-> 2]}
        /\ (Len(hist) >= 2 /\ QueryEntry(hist[1], v, h1) /\ QueryEntry(hist[2], v, h2)
            /\ h1 # h2)
           => /\ hist[2].out = "ok"
              /\ hist[2].ret = [peer_id |-> generate_uuid(h2, v), parents |-> <<>>]
        /\ (Len(hist) = 2 /\ QueryEntry(hist[1], v, h1) /\ QueryEntry(hist[2], v, h2)
            /\ h1 # h2)
           => /\ TwoUnderRoot(v, h1, h2)
              /\ get_volumes_list(TheEngine) = {[id |-> v, count |-> 3]}

\* two hosts have queried an image, one after the other, and nothing else happened
C4_Witness ==
    \E v \in Images, h1, h2 \in Hosts :
        /\ h1 # h2 /\ Len(hist) = 2
        /\ QueryEntry(hist[1], v, h1) /\ QueryEntry(hist[2], v, h2)
        /\ hist[2].out = "ok"

\* what a second query by host h for image v, right after the first, returns and leaves
QueryAgain(v, h) == get_volume_parents(QueryNow(v, h).st, default_executor, v, h)

\* the node set of the tree of v in the executor state E, and the links of each node
Shape(E, v) ==
    [p \in DOMAIN E.volumes[v].nodes |->
        [node |-> E.volumes[v].nodes[p],
         left |-> E.heap[E.volumes[v].nodes[p]].left,
         right |-> E.heap[E.volumes[v].nodes[p]].right,
         parent |-> E.heap[E.volumes[v].nodes[p]].parent]]

\* C5: in any reachable state, query(v, h) called twice in a row returns the same
\* peer_id both times, and the second call leaves the tree's node set, its shape
\* and the host's bindings unchanged.
C5_QueryTwice ==
    ~hung =>
        \A v \in Images, h \in Hosts :
            /\ QueryNow(v, h).out = "ok"
            /\ QueryAgain(v, h).out = "ok"
            /\ QueryAgain(v, h).ret.peer_id = QueryNow(v, h).ret.peer_id
            /\ Shape(QueryAgain(v, h).st, v) = Shape(QueryNow(v, h).st, v)
            /\ QueryAgain(v, h).st.host_to_volumes = QueryNow(v, h).st.host_to_volumes

\* C5 wherever the first query returns
C5_QueryTwiceWhereItReturns ==
    ~hung =>
        \A v \in Images, h \in Hosts :
            QueryNow(v, h).out = "ok"
            => /\ QueryAgain(v, h).out = "ok"
               /\ QueryAgain(v, h).ret = QueryNow(v, h).ret
               /\ QueryAgain(v, h).st = QueryNow(v, h).st

\* what remove(v, h:v) right after query(v, h) returns and leaves
RemoveAfterQuery(v, h) ==
    delete_volume_metadata(QueryNow(v, h).st, v, generate_uuid(h, v))

\* C6: in any reachable state where host h has no node in tree v, query(v, h)
\* followed at once by remove(v, h:v) succeeds and restores tree v to its node set
\* and its parent/child links of before the query.
C6_QueryThenRemove ==
    ~hung =>
        \A v \in DOMAIN volumes, h \in Hosts :
            generate_uuid(h, v) \notin DOMAIN volumes[v].nodes
            => /\ QueryNow(v, h).out = "ok"
               /\ RemoveAfterQuery(v, h).out = "ok"
               /\ Shape(RemoveAfterQuery(v, h).st, v) = Shape(TheEngine, v)

\* C6 wherever the query returns
C6_QueryThenRemoveWhereItReturns ==
    ~hung =>
        \A v \in DOMAIN volumes, h \in Hosts :
            (generate_uuid(h, v) \notin DOMAIN volumes[v].nodes /\ QueryNow(v, h).out = "ok")
            => /\ RemoveAfterQuery(v, h).out = "ok"
               /\ Shape(RemoveAfterQuery(v, h).st, v) = Shape(TheEngine, v)

\* the whole seconds since host h was last seen (bound at its first query, or heartbeat)
Age(h) == Now - host_to_volumes[h].timestamp

RECURSIVE Below(_, _)
Below(H, n) ==
    IF n = Null \/ n \notin DOMAIN H THEN {}
    ELSE {n} \cup Below(H, H[n].left) \cup Below(H, H[n].right)

\* a step of the scanner: one whole pass over host_to_volumes
ScannerStep == ScannerBoot \/ ScannerPass

\* after the step, host h (as it stood before the step) is evicted: it has no entry
\* in host_to_volumes, a heartbeat of it returns [], and none of the nodes it was
\* bound to is in a tree's nodes or below a tree's root
Gone(h) ==
    /\ h \notin DOMAIN host_to_volumes'
    /\ update_status(Engine(heap', volumes', host_to_volumes'), default_executor, h).out = "ok"
    /\ update_status(Engine(heap', volumes', host_to_volumes'), default_executor, h).ret = <<>>
    /\ \A n \in Range(host_to_volumes[h].volume_list), v \in DOMAIN volumes' :
           /\ n \notin Range(volumes'[v].nodes)
           /\ n \notin Below(heap', volumes'[v].root)

\* host h has a binding and was last seen more than MAX_POLLING_TIME seconds ago
Silent(h) ==
    /\ h \in DOMAIN host_to_volumes
    /\ host_to_volumes[h].volume_list # EmptyMap
    /\ Age(h) > MAX_POLLING_TIME

\* C8: a scanner pass that runs when a host with a binding has been silent for
\* more than MAX_POLLING_TIME seconds evicts the host: after the pass it has no
\* entry in host_to_volumes, heartbeat(host) returns [], and none of its nodes is
\* in any tree's nodes or reachable from any tree's root.
C8_PassEvictsSilentHost ==
    [][ScannerStep => \A h \in DOMAIN host_to_volumes : Silent(h) => Gone(h)]_vars

\* C8 for the passes that come to an end
C8_EndedPassEvictsSilentHost ==
    [][(ScannerStep /\ ~hung') => \A h \in DOMAIN host_to_volumes : Silent(h) => Gone(h)]_vars

\* C10: after every operation and scanner pass, every node other than the root
\* that is reachable from a tree's root has the level of its parent plus one.
C10_LevelIsParentsPlusOne ==
    \A v \in DOMAIN volumes :
        \A n \in Below(heap, volumes[v].root) \ {volumes[v].root} :
            /\ heap[n].parent \in Below(heap, volumes[v].root)
            /\ heap[n].level = heap[heap[n].parent].level + 1

\* a tree two levels deep whose levels update_tree_status has rewritten (the root
\* has level 0 only once a removal has run)
C10_Witness ==
    \E v \in DOMAIN volumes :
        /\ heap[volumes[v].root].level = 0
        /\ \E n \in Below(heap, volumes[v].root) :
               /\ heap[n].parent # Null
               /\ heap[n].parent # volumes[v].root
               /\ heap[n].level = 2

\* the greenlet a is between the first and the last state access of its call
Inside(a) == a.op = "scan" => a.todo # <<>>

\* what the whole call of the greenlet a returns and leaves when it runs alone
\* from the state in which it began
Whole(a) ==
    CASE a.op = "query" ->
             get_volume_parents(a.began, default_executor, a.volume_id, a.host)
      [] a.op = "remove" -> delete_volume_metadata(a.began, a.volume_id, a.peer_id)
      [] a.op = "heartbeat" -> update_status(a.began, default_executor, a.host)
      [] a.op = "scan" -> kick_hosts(a.began, Now, a.order)

\* the step ends the call of the greenlet a
Ends(a) == a \in inflight /\ inflight' = inflight \ {a}

\* the step has put the outcome of a request of op into hist
Answered(op) ==
    /\ ~Overflowed(hist')
    /\ Len(hist') = Len(hist) + 1
    /\ hist'[Len(hist')].op = op

----------------------------------------------------------------------------
(* The invariants of the trees and of the host bookkeeping *)

\* C11: in every reachable state, also right after a tree has been created and
\* before any removal, the root of every tree has level 0.
C11_RootLevelZero ==
    \A v \in DOMAIN volumes : heap[volumes[v].root].level = 0

\* the root object of the tree of v in the executor state E is the synthetic node
Synthetic(E, v) ==
    /\ E.volumes[v].root # Null
    /\ E.volumes[v].root = NewRef([r \in {} |-> Null], random_uuid(v))
    /\ E.heap[E.volumes[v].root].fake_root
    /\ E.heap[E.volumes[v].root].status = "OK"
    /\ E.heap[E.volumes[v].root].parent = Null

\* C12: after every operation and scanner pass the root of every tree is the
\* synthetic node made with the tree (fake_root, status OK, no parent), and no
\* remove or register leaves another root, not even one that names the root's
\* own peer id.
C12_RootStays ==
    \A v \in DOMAIN volumes :
        /\ Synthetic(TheEngine, v)
        /\ \A p \in DOMAIN volumes[v].nodes :
               /\ Synthetic(delete_volume_metadata(TheEngine, v, p).st, v)
               /\ \A b \in BodiesOf(Hosts) :
                      Synthetic(add_volume_metadata(TheEngine, v, p, b).st, v)

\* a removal has rewritten a tree that holds other nodes, and the root is the same
C12_Witness ==
    \E v \in DOMAIN volumes :
        /\ heap[volumes[v].root].level = 0
        /\ Cardinality(DOMAIN volumes[v].nodes) > 1
        /\ Synthetic(TheEngine, v)

\* C13: after every operation and scanner pass, the keys of a tree's nodes are
\* the peer ids of the nodes reachable from its root by left and right, and
\* nodes[p] is the very node reached that carries the peer id p.
C13_NodesAreTheTree ==
    \A v \in DOMAIN volumes :
        /\ DOMAIN volumes[v].nodes = {heap[n].peer_id : n \in Below(heap, volumes[v].root)}
        /\ \A n \in Below(heap, volumes[v].root) : volumes[v].nodes[heap[n].peer_id] = n

\* a removal has spliced out a node that had a child, and the tree still has
\* a node below a child of the root
C13_Witness ==
    \E v \in DOMAIN volumes :
        /\ heap[volumes[v].root].level = 0
        /\ \E n \in Below(heap, volumes[v].root) : heap[n].level = 2

\* the node n is bound under host h in host_to_volumes
Bound(h, n) ==
    /\ h \in DOMAIN host_to_volumes
    /\ n \in Range(host_to_volumes[h].volume_list)

\* the node n is a node of some tree other than its root
Planted(n) ==
    \E v \in DOMAIN volumes : n \in Below(heap, volumes[v].root) \ {volumes[v].root}

\* C14: after every operation and scanner pass, a node is bound under host h in
\* host_to_volumes if and only if it is a node of some tree other than the root
\* and its host field is h.
C14_BoundIffPlanted ==
    ~hung =>
        \A n \in DOMAIN heap :
            \A h \in Hosts \cup DOMAIN host_to_volumes \cup {heap[n].host} :
                Bound(h, n) <=> (Planted(n) /\ heap[n].host = h)

----------------------------------------------------------------------------
(* The contracts of the tree's methods *)

\* the nodes at and below r that have status OK and a free child
Free(r) ==
    {n \in Below(heap, r) : heap[n].status = "OK" /\ (heap[n].left = Null \/ heap[n].right = Null)}

\* C15: for every reachable tree, and for the search started at any of its nodes,
\* tree_find_available_slot returns a node with status OK and a free child
\* whenever one is reachable from where the search starts, and None only when
\* no reachable node is both OK and short of a child.
C15_SlotSoundAndComplete ==
    \A v \in DOMAIN volumes :
        \A r \in Below(heap, volumes[v].root) :
            /\ Free(r) # {} => tree_find_available_slot(heap, r) \in Free(r)
            /\ tree_find_available_slot(heap, r) = Null => Free(r) = {}
            /\ tree_find_available_slot(heap, r) # Null
                   => tree_find_available_slot(heap, r) \in Free(r)

\* the root is full, its left child cannot take a child, and the search finds
\* the slot on the right
C15_Witness ==
    \E v \in DOMAIN volumes :
        /\ heap[volumes[v].root].left # Null
        /\ heap[volumes[v].root].right # Null
        /\ heap[volumes[v].root].left \notin Free(volumes[v].root)
        /\ tree_find_available_slot(heap, volumes[v].root) = heap[volumes[v].root].right

\* the way from the root down to the node n: 0 for a step left, 1 for a step right
RECURSIVE Route(_, _)
Route(H, n) ==
    IF H[n].parent = Null THEN <<>>
    ELSE Append(Route(H, H[n].parent), IF H[H[n].parent].left = n THEN 0 ELSE 1)

\* the way a comes before the way b in the breadth-first order, left before right
Earlier(a, b) ==
    \/ Len(a) < Len(b)
    \/ /\ Len(a) = Len(b)
       /\ \E i \in 1..Len(a) : a[i] < b[i] /\ \A j \in 1..(i - 1) : a[j] = b[j]

\* the way to the k-th place of a complete binary tree, the root being the first
RECURSIVE RouteOf(_)
RouteOf(k) == IF k <= 1 THEN <<>> ELSE Append(RouteOf(k \div 2), k % 2)

\* the hosts that register, one after the other and in any order, into a tree
\* that holds only its root, and the host that registers after them
FillHosts == {<<"h1">>, <<"h2">>, <<"h3">>, <<"h4">>}
LastHost == <<"h5">>

\* register(v, h:v, body of h) for the hosts h of hs in turn, from the outcome r on
RECURSIVE Fill(_, _, _)
Fill(r, v, hs) ==
    IF hs = <<>> \/ r.out # "ok" THEN r
    ELSE Fill(add_volume_metadata(r.st, v, generate_uuid(Head(hs), v),
                                  CHOOSE b \in BodiesOf({Head(hs)}) : TRUE),
              v, Tail(hs))

\* the registers of the hosts hs, with the outcome f, all returned, and the node
\* of the k-th host stands at the k-th place after the root
InOrder(f, v, hs) ==
    /\ f.out = "ok"
    /\ \A k \in 1..Len(hs) :
           Route(f.st.heap, f.st.volumes[v].nodes[generate_uuid(hs[k], v)]) = RouteOf(k + 1)

\* C16: the node that tree_find_available_slot returns is the first, in the
\* breadth-first order with left before right, of the nodes that have status OK
\* and a free child, hence one of least depth; and successive inserts of OK nodes
\* into a tree that holds only its root fill it level by level, left before
\* right, in the order of the inserts.
C16_BreadthFirstLeftFirst ==
    \A v \in DOMAIN volumes :
        /\ \A r \in Below(heap, volumes[v].root) :
               \A n \in Free(r) \ {tree_find_available_slot(heap, r)} :
                   Earlier(Route(heap, tree_find_available_slot(heap, r)), Route(heap, n))
        /\ (~hung /\ DOMAIN volumes[v].nodes = {random_uuid(v)})
           => \A hs \in Orders(FillHosts) :
                  InOrder(Fill(EResult(TheEngine, "ok", Null), v, Append(hs, LastHost)),
                          v, Append(hs, LastHost))

\* the root is full, a child of the root and a node below a child of the root
\* both have status OK and a free child, and the search returns the child of the root
C16_Witness ==
    \E v \in DOMAIN volumes :
        /\ heap[volumes[v].root].left # Null
        /\ heap[volumes[v].root].right # Null
        /\ \E n \in Free(volumes[v].root) : Len(Route(heap, n)) = 2
        /\ Len(Route(heap, tree_find_available_slot(heap, volumes[v].root))) = 1

\* a node object for host h and image v as a caller hands it to insert_by_node:
\* no parent, and children left over from an earlier use
Loose(v, h, node_status) ==
    [BTreeNode(generate_uuid(h, v), h, NoneStr, NoneStr, NoneStr, node_status, v, FALSE)
        EXCEPT !.left = volumes[v].root, !.right = volumes[v].root]

\* insert_by_node of the object new into the tree of v returned r, slot being
\* what tree_find_available_slot gave before the call
Inserted(r, v, new, slot) ==
    IF slot = Null THEN r.out = "InvalidParameterValue"
    ELSE /\ r.out = "ok"
         /\ r.ret = slot
         /\ IF heap[slot].left = Null
            THEN r.heap[slot].left = new /\ r.heap[slot].right = heap[slot].right
            ELSE r.heap[slot].right = new /\ r.heap[slot].left = heap[slot].left
         /\ r.heap[new].parent = slot
         /\ r.heap[new].level = heap[slot].level + 1
         /\ r.heap[new].left = Null /\ r.heap[new].right = Null
         /\ r.heap[slot].parent = heap[slot].parent
         /\ count(r.tree) = count(volumes[v]) + 1
         /\ r.tree.root = volumes[v].root
         /\ r.tree.nodes[r.heap[new].peer_id] = new
         /\ \A p \in DOMAIN volumes[v].nodes : r.tree.nodes[p] = volumes[v].nodes[p]
         /\ \A n \in DOMAIN heap \ {slot} : r.heap[n] = heap[n]

\* C17: a successful insert_by_node(new_node) returns the slot that
\* tree_find_available_slot chose, hangs new_node on the slot's left if that was
\* free and else on its right, sets new_node.parent to the slot and
\* new_node.level to the slot's level plus one, clears new_node's children, adds
\* exactly one node to the tree and leaves every other link as it was.
C17_InsertContract ==
    \A v \in DOMAIN volumes, h \in CrowdHosts, node_status \in {"OK", "pending"} :
        generate_uuid(h, v) \notin DOMAIN volumes[v].nodes
        => Inserted(insert_by_node(Alloc(heap, NewRef(heap, generate_uuid(h, v)),
                                         Loose(v, h, node_status)),
                                   volumes[v], NewRef(heap, generate_uuid(h, v))),
                    v, NewRef(heap, generate_uuid(h, v)),
                    tree_find_available_slot(heap, volumes[v].root))

\* a host has no node in a tree whose next free place is the right of a node
\* below the root
C17_Witness ==
    \E v \in DOMAIN volumes, h \in CrowdHosts :
        /\ generate_uuid(h, v) \notin DOMAIN volumes[v].nodes
        /\ tree_find_available_slot(heap, volumes[v].root) \notin {Null, volumes[v].root}
        /\ heap[tree_find_available_slot(heap, volumes[v].root)].left # Null

\* the only child of the node t in the heap H, or Null
OnlyChild(H, t) == IF H[t].left # Null THEN H[t].left ELSE H[t].right

\* the nodes of the tree T that stand as deep as the node n
Peers(H, T, n) ==
    {m \in Below(H, T.root) : Len(Route(H, m)) = Len(Route(H, n))}

\* the reply hb of a heartbeat reports, for the node c, the parents of the place
\* under par where c stands in the tree r.tree
Reports(hb, r, c, par) ==
    /\ hb.out = "ok"
    /\ \E i \in 1..Len(hb.ret) :
           /\ hb.ret[i].peer_id = r.heap[c].peer_id
           /\ IF r.heap[par].fake_root THEN hb.ret[i].parents = <<>>
              ELSE /\ Head(hb.ret[i].parents) = identity(r.heap, par)
                   /\ Range(hb.ret[i].parents)
                          = {identity(r.heap, m) : m \in Peers(r.heap, r.tree, par)}

\* remove_by_peer_id of the node t, which stood under par with the child c (or
\* none) in the tree of v of the executor state E, returned r
Spliced(E, v, r, t, c, par) ==
    /\ r.out = "ok"
    /\ r.ret = t
    /\ count(r.tree) = count(E.volumes[v]) - 1
    /\ DOMAIN r.tree.nodes = DOMAIN E.volumes[v].nodes \ {E.heap[t].peer_id}
    /\ IF E.heap[par].left = t
       THEN r.heap[par].left = c /\ r.heap[par].right = E.heap[par].right
       ELSE r.heap[par].right = c /\ r.heap[par].left = E.heap[par].left
    /\ c # Null
       => /\ r.heap[c].parent = par
          /\ r.heap[c].left = E.heap[c].left /\ r.heap[c].right = E.heap[c].right
          /\ Reports(update_status(Put(E, v, r), default_executor, E.heap[c].host),
                     r, c, par)

\* Spliced, with the heartbeat looked at only where the child c is bound under its host
SplicedWhereBound(E, v, r, t, c, par) ==
    /\ r.out = "ok"
    /\ r.ret = t
    /\ count(r.tree) = count(E.volumes[v]) - 1
    /\ DOMAIN r.tree.nodes = DOMAIN E.volumes[v].nodes \ {E.heap[t].peer_id}
    /\ IF E.heap[par].left = t
       THEN r.heap[par].left = c /\ r.heap[par].right = E.heap[par].right
       ELSE r.heap[par].right = c /\ r.heap[par].left = E.heap[par].left
    /\ c # Null
       => /\ r.heap[c].parent = par
          /\ r.heap[c].left = E.heap[c].left /\ r.heap[c].right = E.heap[c].right
          /\ (/\ E.heap[c].host \in DOMAIN E.host_to_volumes
              /\ c \in Range(E.host_to_volumes[E.heap[c].host].volume_list))
             => Reports(update_status(Put(E, v, r), default_executor, E.heap[c].host),
                        r, c, par)

\* every removal of a node of the tree of v, in the executor state E, that is
\* not the root and has at most one child, goes as C18 says
SplicesWell(E, v) ==
    \A p \in DOMAIN E.volumes[v].nodes \ {random_uuid(v)} :
        (E.heap[E.volumes[v].nodes[p]].left = Null \/ E.heap[E.volumes[v].nodes[p]].right = Null)
        => Spliced(E, v, remove_by_peer_id(E.heap, E.volumes[v], p), E.volumes[v].nodes[p],
                   OnlyChild(E.heap, E.volumes[v].nodes[p]),
                   E.heap[E.volumes[v].nodes[p]].parent)

\* C18: remove_by_peer_id of a node with exactly one child puts the child in the
\* node's place (same side of the node's parent, the child's parent set to that
\* parent), and of a leaf sets the parent's pointer to None; either way it
\* returns the removed node, the tree has exactly one node less, and a heartbeat
\* of the promoted child's host then reports the parents of its new place.  It
\* is checked in every reachable state, and in the state a query by a further
\* host leaves.
C18_RemoveUpToOneChild ==
    ~hung =>
        \A v \in DOMAIN volumes :
            /\ SplicesWell(TheEngine, v)
            /\ \A h \in FillHosts :
                   QueryNow(v, h).out = "ok" => SplicesWell(QueryNow(v, h).st, v)

\* C18 where the promoted child is bound under its host
C18_RemoveUpToOneChildWhereBound ==
    ~hung =>
        \A v \in DOMAIN volumes :
            \A h \in FillHosts : \A E \in {TheEngine, QueryNow(v, h).st} :
                (v \in DOMAIN E.volumes /\ ~(E # TheEngine /\ QueryNow(v, h).out # "ok"))
                => \A p \in DOMAIN E.volumes[v].nodes \ {random_uuid(v)} :
                       (\/ E.heap[E.volumes[v].nodes[p]].left = Null
                        \/ E.heap[E.volumes[v].nodes[p]].right = Null)
                       => SplicedWhereBound(E, v, remove_by_peer_id(E.heap, E.volumes[v], p),
                                            E.volumes[v].nodes[p],
                                            OnlyChild(E.heap, E.volumes[v].nodes[p]),
                                            E.heap[E.volumes[v].nodes[p]].parent)

\* the first node with a free child on the way from n down by left
RECURSIVE LeftmostFree(_, _)
LeftmostFree(H, n) ==
    IF H[n].left = Null \/ H[n].right = Null THEN n ELSE LeftmostFree(H, H[n].left)

\* the root of the tree of v has two children, and every node of the tree can
\* take children (has status OK)
FullRoot(v) ==
    /\ ~hung
    /\ heap[volumes[v].root].left # Null
    /\ heap[volumes[v].root].right # Null
    /\ \A n \in Below(heap, volumes[v].root) : heap[n].status = "OK"

\* remove_by_peer_id of the root of the tree of v returned r: the old root comes
\* back, the tree has one node less, the old root's left child up is the new
\* root, and the old root's right child hangs under the node c
Rerooted(r, v, up, right, c) ==
    /\ r.out = "ok"
    /\ r.ret = volumes[v].root
    /\ count(r.tree) = count(volumes[v]) - 1
    /\ r.tree.root = up
    /\ r.heap[up].parent = Null
    /\ r.heap[right].parent = c
    /\ c = LeftmostFree(heap, up)

\* C19 as the claim states it: remove_by_peer_id of a root with two children, all
\* nodes being able to take children, returns the old root, leaves one node
\* less, makes the old root's left child the new root, and hangs the old root's
\* right child under the first available node of the leftmost path, as the new
\* root's right child when the new root has a free right slot.
C19_RootRemovalRightWhenFree ==
    \A v \in DOMAIN volumes :
        FullRoot(v)
        => /\ Rerooted(remove_by_peer_id(heap, volumes[v], random_uuid(v)), v,
                       heap[volumes[v].root].left, heap[volumes[v].root].right,
                       LeftmostFree(heap, heap[volumes[v].root].left))
           /\ heap[heap[volumes[v].root].left].right = Null
              => remove_by_peer_id(heap, volumes[v], random_uuid(v))
                     .heap[heap[volumes[v].root].left].right = heap[volumes[v].root].right

\* the old root's right child went under c: on c's left if that was free, else
\* on c's right, and c's other child stayed
HungUnder(r, right, c) ==
    IF heap[c].left = Null
    THEN r.heap[c].left = right /\ r.heap[c].right = heap[c].right
    ELSE r.heap[c].right = right /\ r.heap[c].left = heap[c].left

\* C19, amended: remove_by_peer_id of a root with two children, all nodes being
\* able to take children, returns the old root, leaves one node less, makes the
\* old root's left child the new root (no parent), and hangs the old root's right
\* child under the first node with a free child on the leftmost path: as that
\* node's left child if its left is free, and else as its right child.  So it
\* becomes the new root's right child only when the new root has a left child
\* and no right child; under a new root that was a leaf it becomes the left child.
C19_RootRemovalLeftIfFree ==
    \A v \in DOMAIN volumes :
        FullRoot(v)
        => /\ Rerooted(remove_by_peer_id(heap, volumes[v], random_uuid(v)), v,
                       heap[volumes[v].root].left, heap[volumes[v].root].right,
                       LeftmostFree(heap, heap[volumes[v].root].left))
           /\ HungUnder(remove_by_peer_id(heap, volumes[v], random_uuid(v)),
                        heap[volumes[v].root].right,
                        LeftmostFree(heap, heap[volumes[v].root].left))

\* a root with two children that are leaves and have status OK
C19_Witness ==
    \E v \in DOMAIN volumes :
        /\ FullRoot(v)
        /\ heap[heap[volumes[v].root].left].left = Null
        /\ heap[heap[volumes[v].root].left].right = Null

\* register(v, p, b) on the node n, which the tree of v holds under p, returned r
Updated(r, v, p, n, b) ==
    /\ r.out = "ok"
    /\ r.st.heap[n].status = "OK"
    /\ r.st.heap[n].host = b.host /\ r.st.heap[n].port = b.port
    /\ r.st.heap[n].iqn = b.iqn /\ r.st.heap[n].lun = b.lun
    /\ r.ret = [host |-> b.host, port |-> b.port, iqn |-> b.iqn, lun |-> b.lun,
                status |-> "OK", peer_id |-> p]
    /\ r.st.volumes = volumes
    /\ DOMAIN r.st.heap = DOMAIN heap
    /\ \A m \in DOMAIN heap \ {n} : r.st.heap[m] = heap[m]
    /\ r.st.heap[n] = [heap[n] EXCEPT !.status = "OK", !.host = b.host, !.port = b.port,
                                      !.iqn = b.iqn, !.lun = b.lun]

\* C20: register(image, peer_id, {host, port, iqn, lun}) on a peer_id that the
\* tree holds leaves that node with status OK and with the host, port, iqn and
\* lun of the call; its place, its children and the rest of the tree stay as
\* they were, whatever host the body names.
C20_RegisterInPlace ==
    ~hung =>
        \A v \in DOMAIN volumes, b \in BodiesOf(CrowdHosts) :
            \A p \in DOMAIN volumes[v].nodes :
                Updated(add_volume_metadata(TheEngine, v, p, b), v, p, volumes[v].nodes[p], b)

\* a node that a query made and a register then turned to OK has a child
C20_Witness ==
    \E v \in DOMAIN volumes, h \in Hosts :
        /\ generate_uuid(h, v) \in DOMAIN volumes[v].nodes
        /\ Bound(h, NodeOf(v, h))
        /\ heap[NodeOf(v, h)].status = "OK"
        /\ heap[NodeOf(v, h)].port = "3260"
        /\ heap[NodeOf(v, h)].left # Null

----------------------------------------------------------------------------
(* Liveness, the error outcomes and the parents that the calls return *)

\* register(v, h:v, body of h) returned r: if it succeeded, host_to_volumes holds
\* h with the timestamp of the present
Refreshed(r, h) ==
    r.out = "ok"
    => /\ h \in DOMAIN r.st.host_to_volumes
       /\ r.st.host_to_volumes[h].timestamp = Now

\* C21: every successful register for a node of host h, h having an entry in
\* host_to_volumes, sets the timestamp of h to the present time, so that no
\* scanner pass within MAX_POLLING_TIME of the register evicts h.
C21_RegisterRefreshes ==
    ~hung =>
        \A v \in DOMAIN volumes, h \in DOMAIN host_to_volumes :
            generate_uuid(h, v) \in DOMAIN volumes[v].nodes
            => \A b \in BodiesOf({h}) :
                   Refreshed(add_volume_metadata(TheEngine, v, generate_uuid(h, v), b), h)

\* an image that no host ever asks for
OtherImage == <<"v2">>

\* C22: register(image_id, peer_id, body) fails with NotFound when no tree
\* exists for image_id, and leaves the trees and host_to_volumes as they were:
\* it does not make the tree.
C22_RegisterUnknownImage ==
    /\ ~hung =>
           \A v \in (Images \cup {OtherImage}) \ DOMAIN volumes, h \in Hosts :
               \A p \in {generate_uuid(h, v), NoneName}, b \in BodiesOf(Hosts) :
                   add_volume_metadata(TheEngine, v, p, b) = EResult(TheEngine, "NotFound", Null)
    /\ (hist # <<>> /\ hist[Len(hist)].op = "register" /\ hist[Len(hist)].out = "NotFound")
       => hist[Len(hist)].volume_id \notin DOMAIN volumes

\* a register for an image that nobody has queried was refused, and the image
\* has no tree
C22_Witness ==
    /\ hist # <<>>
    /\ hist[Len(hist)].op = "register"
    /\ hist[Len(hist)].out = "NotFound"
    /\ hist[Len(hist)].volume_id \notin DOMAIN volumes
    /\ heap = EmptyMap

\* remove(v, p) returned r: the outcome that is due for a null peer id and
\* for an absent tree or node, and a call that failed left the executor as it was
Refused(r, v, p) ==
    /\ p = NoneName => r.out = "InvalidParameterValue"
    /\ (p # NoneName /\ v \notin DOMAIN volumes) => r.out = "NotFound"
    /\ (p # NoneName /\ v \in DOMAIN volumes /\ p \notin DOMAIN volumes[v].nodes)
       => r.out = "NotFound"
    /\ r.out \notin {"ok", "hang"} => r.st = TheEngine

\* C23: remove(image_id, peer_id) fails with InvalidParameterValue when peer_id
\* is null and with NotFound when the tree or the node is absent; and whenever
\* remove fails, every tree and host_to_volumes are as they were before the call.
C23_RemoveErrors ==
    ~hung =>
        \A v \in Images \cup {OtherImage} :
            \A p \in PeerIdsOf(Hosts, {v}) \cup {NoneName, random_uuid(v)} :
                Refused(delete_volume_metadata(TheEngine, v, p), v, p)

\* a remove for a peer id that the tree does not hold was refused with NotFound,
\* and the tree still holds the nodes of other hosts
C23_Witness ==
    /\ hist # <<>>
    /\ hist[Len(hist)].op = "remove"
    /\ hist[Len(hist)].out = "NotFound"
    /\ hist[Len(hist)].volume_id \in DOMAIN volumes
    /\ hist[Len(hist)].peer_id \notin DOMAIN volumes[hist[Len(hist)].volume_id].nodes
    /\ count(volumes[hist[Len(hist)].volume_id]) > 1

\* remove(v, p) returned r: it succeeded, and the tree of v no longer holds p,
\* nor does any host's volume_list
Removed(r, v, p) ==
    /\ r.out = "ok"
    /\ p \notin DOMAIN r.st.volumes[v].nodes
    /\ \A h \in DOMAIN r.st.host_to_volumes :
           p \notin DOMAIN r.st.host_to_volumes[h].volume_list

\* C24: in every reachable state and for every node n of a tree v other than the
\* root, whether a query made it or a register, remove(v, n.peer_id) succeeds,
\* and afterwards n is neither among the nodes of v nor bound in host_to_volumes.
C24_RemovePresentSucceeds ==
    ~hung =>
        \A v \in DOMAIN volumes :
            \A p \in DOMAIN volumes[v].nodes \ {random_uuid(v)} :
                Removed(delete_volume_metadata(TheEngine, v, p), v, p)

\* the list ps names the parent par first and, after it, each of the other nodes
\* that stand as deep as par, and only those; par is named once
ParentThenOthers(ps, par, others) ==
    /\ ps # <<>>
    /\ Head(ps) = identity(heap, par)
    /\ {ps[i] : i \in 2..Len(ps)} = {identity(heap, m) : m \in others}
    /\ Cardinality({i \in 1..Len(ps) : ps[i] = identity(heap, par)}) = 1

\* the nodes of the tree of v whose parent is not the root of the tree
UnderHosts(v) ==
    {n \in Below(heap, volumes[v].root) :
        heap[n].parent # Null /\ ~heap[heap[n].parent].fake_root}

\* C25: for a node whose parent is not the synthetic root, get_node_parents
\* returns a list whose first element is the identity of the parent and whose
\* other elements are exactly the identities of the other nodes at the parent's
\* depth; the identity of the parent is in the list exactly once.
C25_ParentOnceThenPeers ==
    ~hung =>
        \A v \in DOMAIN volumes :
            \A n \in UnderHosts(v) :
                /\ get_node_parents(heap, volumes[v], n).out = "ok"
                /\ ParentThenOthers(get_node_parents(heap, volumes[v], n).ret, heap[n].parent,
                                    Peers(heap, volumes[v], heap[n].parent) \ {heap[n].parent})

\* the values of CONF.default_executor that name a policy of parents
Executors == {"btree", "btree_with_uncle"}

\* the list ps of parents given for the node n of the tree T in the heap H is
\* empty exactly when n hangs under the root of T, which is the synthetic root;
\* and a list that is not empty begins with the parent of n, which is not that root
EmptyIffUnderRoot(ps, H, T, n) ==
    /\ H[T.root].fake_root
    /\ ps = <<>> <=> H[n].parent = T.root
    /\ ps # <<>> => /\ Head(ps) = identity(H, H[n].parent)
                    /\ Head(ps) # identity(H, T.root)
                    /\ ~H[H[n].parent].fake_root

\* the reply r of query(v, h) under either policy, where the query returns
QueryEmptyIffUnderRoot(r, v, h) ==
    r.out = "ok"
    => /\ r.ret.peer_id = generate_uuid(h, v)
       /\ EmptyIffUnderRoot(r.ret.parents, r.st.heap, r.st.volumes[v],
                            r.st.volumes[v].nodes[generate_uuid(h, v)])

\* the reply r of heartbeat(h) under either policy
BeatEmptyIffUnderRoot(r, h) ==
    /\ r.out = "ok"
    /\ \A i \in 1..Len(r.ret) :
           /\ r.ret[i].peer_id \in DOMAIN host_to_volumes[h].volume_list
           /\ get_image_id_from_peerid(r.ret[i].peer_id).ret \in DOMAIN volumes
           /\ EmptyIffUnderRoot(r.ret[i].parents, heap,
                                volumes[get_image_id_from_peerid(r.ret[i].peer_id).ret],
                                host_to_volumes[h].volume_list[r.ret[i].peer_id])

\* C26: under both policies, the parents that query and heartbeat return for a
\* node are [] if and only if the node's parent is the synthetic root of its
\* tree; otherwise the list is not empty, and its first element, the direct
\* parent, is not the synthetic root.
C26_EmptyIffUnderRoot ==
    ~hung =>
        \A executor \in Executors :
            /\ \A v \in Images, h \in Hosts :
                   QueryEmptyIffUnderRoot(get_volume_parents(TheEngine, executor, v, h), v, h)
            /\ \A h \in DOMAIN host_to_volumes :
                   BeatEmptyIffUnderRoot(update_status(TheEngine, executor, h), h)

\* a query was answered with no parents and a later one with parents, and a
\* heartbeat under the other policy would report parents for a node as well
C26_Witness ==
    /\ \E i, j \in 1..Len(hist) :
           /\ hist[i].op = "query" /\ hist[i].out = "ok" /\ hist[i].ret.parents = <<>>
           /\ hist[j].op = "query" /\ hist[j].out = "ok" /\ hist[j].ret.parents # <<>>
    /\ \E h \in DOMAIN host_to_volumes :
           \E e \in Range(update_status(TheEngine, "btree_with_uncle", h).ret) :
               e.parents # <<>>

\* the other children of the parent of the node par in the heap H: none or one
Uncles(H, par) ==
    IF H[par].parent = Null THEN {}
    ELSE {H[H[par].parent].left, H[H[par].parent].right} \ {par, Null}

\* the list ps is the identity of the parent of the node n and, after it, that of
\* the parent's sibling if it has one; n itself is not in it
ParentAndUncle(ps, H, n) ==
    /\ Len(ps) <= 2
    /\ Len(ps) = 1 + Cardinality(Uncles(H, H[n].parent))
    /\ ps[1] = identity(H, H[n].parent)
    /\ \A u \in Uncles(H, H[n].parent) : ps[2] = identity(H, u)
    /\ identity(H, n) \notin Range(ps)

\* C27: under the policy btree_with_uncle, for a node whose parent is not the
\* synthetic root, the parents are [identity of the parent, identity of the
\* parent's sibling] when the parent has a sibling, and [identity of the parent]
\* when it has none; the list has at most two elements and never holds the node
\* itself.  This is so of what get_parents_info gives for every such node, of
\* what a query of the node's host returns, and of what its heartbeat returns.
C27_ParentAndUncle ==
    (~hung /\ default_executor = "btree_with_uncle") =>
        \A v \in DOMAIN volumes :
            \A n \in UnderHosts(v) :
                /\ get_parents_info(TheEngine, default_executor, n).out = "ok"
                /\ ParentAndUncle(get_parents_info(TheEngine, default_executor, n).ret, heap, n)
                /\ \A h \in Hosts :
                       (generate_uuid(h, v) \in DOMAIN volumes[v].nodes /\ NodeOf(v, h) = n)
                       => /\ QueryNow(v, h).out = "ok"
                          /\ ParentAndUncle(QueryNow(v, h).ret.parents, heap, n)
                /\ \A h \in DOMAIN host_to_volumes :
                       \A e \in Range(update_status(TheEngine, default_executor, h).ret) :
                           host_to_volumes[h].volume_list[e.peer_id] = n
                           => ParentAndUncle(e.parents, heap, n)

\* a query was answered with the parent and the parent's sibling, and the node
\* of that query still hangs under a parent that has a sibling
C27_Witness ==
    /\ default_executor = "btree_with_uncle"
    /\ \E i \in 1..Len(hist) :
           /\ hist[i].op = "query" /\ hist[i].out = "ok"
           /\ Len(hist[i].ret.parents) = 2
           /\ hist[i].volume_id \in DOMAIN volumes
           /\ hist[i].ret.peer_id \in DOMAIN volumes[hist[i].volume_id].nodes
           /\ Uncles(heap, heap[volumes[hist[i].volume_id].nodes[hist[i].ret.peer_id]].parent) # {}

\* no two nodes of the tree of v in the executor state E carry the same host
OneNodePerHost(E, v) ==
    \A p, q \in DOMAIN E.volumes[v].nodes :
        E.heap[E.volumes[v].nodes[p]].host = E.heap[E.volumes[v].nodes[q]].host => p = q

\* C28: in every reachable state, after any sequence of query and register
\* calls, no tree holds two distinct nodes whose host field is the same host: not
\* now, and not after one more register, whatever peer id and host it carries.
C28_OneNodePerHost ==
    ~hung =>
        \A v \in DOMAIN volumes :
            /\ OneNodePerHost(TheEngine, v)
            /\ \A p \in PeerIdsOf(Hosts, {v}), b \in BodiesOf(Hosts) :
                   add_volume_metadata(TheEngine, v, p, b).out = "ok"
                   => OneNodePerHost(add_volume_metadata(TheEngine, v, p, b).st, v)

\* the entry e of a heartbeat of host h gives, for a peer id bound to h, the
\* parents that a query by h for the image of that peer id returns in this state
AsQueried(e, h, executor) ==
    /\ e.peer_id \in DOMAIN host_to_volumes[h].volume_list
    /\ get_image_id_from_peerid(e.peer_id).out = "ok"
    /\ get_volume_parents(TheEngine, executor,
                          get_image_id_from_peerid(e.peer_id).ret, h).out = "ok"
    /\ get_volume_parents(TheEngine, executor,
                          get_image_id_from_peerid(e.peer_id).ret, h).ret
           = [peer_id |-> e.peer_id, parents |-> e.parents]

\* heartbeat(h) returned r
Beaten(r, h, executor) ==
    IF h \notin DOMAIN host_to_volumes THEN r = EResult(TheEngine, "ok", <<>>)
    ELSE /\ r.out = "ok"
         /\ Len(r.ret) = Cardinality(DOMAIN host_to_volumes[h].volume_list)
         /\ {r.ret[i].peer_id : i \in 1..Len(r.ret)} = DOMAIN host_to_volumes[h].volume_list
         /\ \A i \in 1..Len(r.ret) : AsQueried(r.ret[i], h, executor)

\* C29: for a host that has an entry in host_to_volumes, heartbeat(host) returns
\* exactly one {peer_id, parents} entry for each peer id bound to the host, with
\* the parents that query(image, host) returns for that node in the same state;
\* for a host that has no entry it returns [].
C29_HeartbeatAsQuery ==
    ~hung =>
        \A h \in Hosts, executor \in Executors :
            Beaten(update_status(TheEngine, executor, h), h, executor)

\* a heartbeat of a host that holds a node was answered with one entry, one of a
\* host that has no entry with none, and the first host still holds its node
C29_Witness ==
    \E i, j \in 1..Len(hist) :
        /\ hist[i].op = "heartbeat" /\ hist[i].out = "ok" /\ Len(hist[i].ret) = 1
        /\ hist[i].host \in DOMAIN host_to_volumes
        /\ hist[i].ret[1].peer_id \in DOMAIN host_to_volumes[hist[i].host].volume_list
        /\ hist[j].op = "heartbeat" /\ hist[j].out = "ok" /\ hist[j].ret = <<>>
        /\ hist[j].host \notin DOMAIN host_to_volumes

\* C30: a scanner pass in which an eviction step fails does not end the
\* scanner: after every pass, failed or not, the scanner waits
\* MAX_POLLING_TIME seconds for its next pass, so that the hosts that expire
\* later are still evicted.
C30_FailedPassGoesOn ==
    [][ScannerStep => BagIn(Waiting(MAX_POLLING_TIME), scanners')]_vars

----------------------------------------------------------------------------
(* Eviction latency: the scanner's passes on a clock of whole seconds *)

\* the clock does not advance while a host's timestamp would get older than this
MaxLate == 70

\* the scanner greenlet s has to run now: a thread that was started runs at
\* once, and timeout.wait returns when its time is up
Due(s) == s.st = "spawned" \/ (s.st = "waiting" /\ s.left = 0)

\* the seconds until the first of the waiting scanners in S is due, d at most
RECURSIVE UntilDue(_, _)
UntilDue(S, d) ==
    IF S = {} THEN d
    ELSE LET s == CHOOSE x \in S : TRUE
         IN  UntilDue(S \ {s}, IF s.st = "waiting" /\ s.left < d THEN s.left ELSE d)

\* time passes by d seconds
Elapse(d) ==
    /\ \A h \in DOMAIN host_to_volumes :
           Now - (host_to_volumes[h].timestamp - d) <= MaxLate
    /\ host_to_volumes' = [h \in DOMAIN host_to_volumes |->
           [host_to_volumes[h] EXCEPT !.timestamp = @ - d]]
    /\ scanners' = LaterAll(scanners, d)
    /\ UNCHANGED <<heap, volumes, default_executor, inflight, cpu, status, started, blocked, hung, hist>>

\* up to d seconds pass, where the scanner is scheduled as soon as it is due:
\* the clock stops at the second in which timeout.wait returns; a handler that
\* spins does not hold up the clock
TickDue(d) ==
    /\ cpu = Idle
    /\ \A s \in BagToSet(scanners) : ~Due(s)
    /\ Elapse(UntilDue(BagToSet(scanners), d))

\* the queries on the clock of the scanner: two hosts ask for the image "v1", and
\* one of them for the image "v:x" as well
DueQueries ==
    {[volume_id |-> v, host |-> h] : v \in Images, h \in FineHosts}
    \cup {[volume_id |-> ColonImage, host |-> <<"h2">>]}

\* two hosts that query and send heartbeats, one of which registers, and the
\* scanner on time
NextDue ==
    \/ \E q \in DueQueries : Query(q.volume_id, q.host)
    \/ \E q \in DueQueries : QueryStart(q.volume_id, q.host, 1)
    \/ \E q \in DueQueries : QueryRefused(q.volume_id, q.host)
    \/ \E q \in DueQueries : QueryResume(q.volume_id, q.host)
    \/ \E v \in Images, h \in {<<"h1">>} : \E b \in BodiesOf({h}) : Register(v, h \o v, b)
    \/ \E h \in FineHosts : Heartbeat(h)
    \/ ScannerBoot
    \/ ScannerPass
    \/ TickDue(FineStep)

SpecDue == Init /\ [][NextDue]_vars

\* the scanner makes its passes: its greenlet waits for the next one or is about
\* to run it, and no call spins
ScannerAlive ==
    /\ ~hung
    /\ \E s \in BagToSet(scanners) : s.st = "waiting"

\* C31: while the scanner waits MAX_POLLING_TIME seconds between its passes
\* and evicts the hosts last seen more than MAX_POLLING_TIME seconds before, a
\* host is evicted no later than 2 * MAX_POLLING_TIME seconds after its last
\* heartbeat: on the clock of whole seconds no host entry is older than that.
C31_EvictedInTwoPeriods ==
    ScannerAlive => \A h \in DOMAIN host_to_volumes : Age(h) <= 2 * MAX_POLLING_TIME

\* a host entry that has reached the age of 2 * MAX_POLLING_TIME when a pass is
\* due: it was last seen in the second of a pass, and the pass after left it
C31_Witness ==
    \E h \in DOMAIN host_to_volumes :
        /\ Age(h) = 2 * MAX_POLLING_TIME
        /\ ~hung
        /\ BagIn(Waiting(0), scanners)

----------------------------------------------------------------------------
(* voltracker: the peer id of a volume, "host:port:iqn:lun" *)

\* the strings that clients send as host, port, iqn and lun; a string is the
\* sequence of its colon-free parts, so "iqn.2014-3-16.com:pdl" has two
PeerHosts == {<<"www.example.com">>, NoneName}
PeerPorts == {<<"7447">>}
PeerIqns == {<<"iqn.2014-3-16.com", "pdl">>, <<"iqn.2014-3-16.com">>, NoneName}
PeerLuns == {<<"1">>, <<"2">>}

PeerInfo(host, port, iqn, lun) == [host |-> host, port |-> port, iqn |-> iqn, lun |-> lun]

\* voltracker parse_to_peer_id: host + ':' + port + ':' + iqn + ':' + lun, a
\* TypeError where one of them is None
parse_to_peer_id(host, port, iqn, lun) ==
    IF NoneName \in {host, port, iqn, lun}
    THEN [out |-> "InvalidParameterValue", ret |-> NoneName]
    ELSE [out |-> "ok", ret |-> host \o port \o iqn \o lun]

\* voltracker parse_from_peer_id: items = peer_id.split(':'), which must be four
parse_from_peer_id(peer_id) ==
    IF Len(peer_id) # 4
    THEN [out |-> "InvalidParameterValue", ret |-> NoneName]
    ELSE [out |-> "ok",
          ret |-> PeerInfo(<<peer_id[1]>>, <<peer_id[2]>>, <<peer_id[3]>>, <<peer_id[4]>>)]

\* a call of one of the two functions, as hist keeps it
Parsed(op, arg, r) == [op |-> op, arg |-> arg, out |-> r.out, ret |-> r.ret]

\* BTreeNode(host=..., port=..., iqn=..., lun=...) makes the peer id of a node
ParseTo(host, port, iqn, lun) ==
    /\ hist' = Log(hist, Parsed("parse_to_peer_id", PeerInfo(host, port, iqn, lun),
                                parse_to_peer_id(host, port, iqn, lun)))
    /\ UNCHANGED <<heap, volumes, host_to_volumes, default_executor, inflight, cpu, status,
                   started, scanners, blocked, hung>>

\* BTreeNode(peer_id=...) takes apart a peer id that parse_to_peer_id has made
ParseFrom(i) ==
    /\ ~Overflowed(hist)
    /\ i \in 1..Len(hist)
    /\ hist[i].op = "parse_to_peer_id"
    /\ hist[i].out = "ok"
    /\ hist' = Log(hist, Parsed("parse_from_peer_id", hist[i].ret,
                                parse_from_peer_id(hist[i].ret)))
    /\ UNCHANGED <<heap, volumes, host_to_volumes, default_executor, inflight, cpu, status,
                   started, scanners, blocked, hung>>

NextPeerId ==
    \/ \E host \in PeerHosts, port \in PeerPorts, iqn \in PeerIqns, lun \in PeerLuns :
           ParseTo(host, port, iqn, lun)
    \/ \E i \in 1..MaxHist : ParseFrom(i)

SpecPeerId == Init /\ [][NextPeerId]_vars

\* C32: parse_from_peer_id gives back the host, port, iqn and lun of which
\* parse_to_peer_id made the peer id, also for an iqn with a colon in it such
\* as "iqn.2014-3-16.com:pdl".
C32_PeerIdRoundTrip ==
    ~Overflowed(hist) =>
        \A i, j \in 1..Len(hist) :
            (/\ hist[i].op = "parse_to_peer_id" /\ hist[i].out = "ok"
             /\ hist[j].op = "parse_from_peer_id" /\ hist[j].arg = hist[i].ret)
            => hist[j].out = "ok" /\ hist[j].ret = hist[i].arg

----------------------------------------------------------------------------
(* Removal and insertion, tree by tree; the scanner; status; bindings *)

\* C33: for every reachable tree and every node of a host in its nodes map,
\* tree_remove_by_node of that node terminates, also for an OK node with two
\* children whose left child is still pending; so neither an explicit remove
\* nor a scanner eviction spins for ever.
C33_RemovalTerminates ==
    /\ ~hung
    /\ \A v \in DOMAIN volumes : \A n \in Range(volumes[v].nodes) \ {volumes[v].root} :
           tree_remove_by_node(heap, volumes[v], n).out # "hang"

\* the nodes that the heap H reaches from the nodes in S by left and right
RECURSIVE Reach(_, _)
Reach(H, S) ==
    IF \A n \in S : {H[n].left, H[n].right} \subseteq S \cup {Null} THEN S
    ELSE Reach(H, (S \cup {H[n].left : n \in S} \cup {H[n].right : n \in S}) \ {Null})

\* the pointers to n as a child among the nodes in S of the heap H
LinksTo(H, S, n) ==
    {<<p, side>> \in S \X {"left", "right"} :
         IF side = "left" THEN H[p].left = n ELSE H[p].right = n}

\* the nodes in S form a tree under root in the heap H: the root has no parent,
\* and every other node has one pointer to it, from the node that is its parent
WellLinked(H, S, root) ==
    /\ H[root].parent = Null
    /\ LinksTo(H, S, root) = {}
    /\ \A n \in S \ {root} :
           /\ H[n].parent \in S
           /\ LinksTo(H, S, n) \in {{<<H[n].parent, "left">>}, {<<H[n].parent, "right">>}}

\* the first node on the way from n down by left that has status OK and a free child
RECURSIVE FirstAvailable(_, _)
FirstAvailable(H, n) ==
    IF H[n].status = "OK" /\ (H[n].left = Null \/ H[n].right = Null) THEN n
    ELSE FirstAvailable(H, H[n].left)

\* in the heap G the node up stands where t stood in the heap H of the tree T,
\* whose root after the removal is root
InPlaceOf(H, T, G, root, t, up) ==
    /\ G[up].parent = H[t].parent
    /\ IF t = T.root THEN root = up
       ELSE /\ root = T.root
            /\ IF H[H[t].parent].left = t
               THEN G[H[t].parent].left = up /\ G[H[t].parent].right = H[H[t].parent].right
               ELSE G[H[t].parent].right = up /\ G[H[t].parent].left = H[H[t].parent].left

\* in the heap G the node right hangs under c, on the side that c had free in H
\* (the left one if both were), and c's other child stayed
Under(H, G, right, c) ==
    /\ G[right].parent = c
    /\ IF H[c].left = Null
       THEN G[c].left = right /\ G[c].right = H[c].right
       ELSE G[c].right = right /\ G[c].left = H[c].left

\* remove_by_peer_id of the node t with two children, in the tree T of the heap
\* H, returned r
TwoChildrenRemoved(H, T, r, t) ==
    /\ r.ret = t
    /\ r.tree.nodes = DelKey(T.nodes, H[t].peer_id)
    /\ Reach(r.heap, {r.tree.root}) = Reach(H, {T.root}) \ {t}
    /\ WellLinked(r.heap, Reach(r.heap, {r.tree.root}), r.tree.root)
    /\ InPlaceOf(H, T, r.heap, r.tree.root, t, H[t].left)
    /\ Under(H, r.heap, H[t].right, FirstAvailable(H, H[t].left))
    /\ \A n \in Reach(H, {T.root}) \ {t, H[t].parent, FirstAvailable(H, H[t].left)} :
           r.heap[n].left = H[n].left /\ r.heap[n].right = H[n].right

\* the nodes of the tree T with status OK and two children
FullNodes(H, T) ==
    {n \in Range(T.nodes) : H[n].status = "OK" /\ H[n].left # Null /\ H[n].right # Null}

\* C34: when remove_by_peer_id of an OK node with two children completes,
\* exactly that node is gone: every other node that was reachable from the root
\* still is, each has one parent, whose left or right refers back to it, the
\* structure has no cycle, the removed node's left child stands where the node
\* stood, and its right child hangs under the first available node of the
\* leftmost path below it.
C34_TwoChildrenRemoval ==
    ~hung =>
        \A v \in DOMAIN volumes : \A t \in FullNodes(heap, volumes[v]) :
            remove_by_peer_id(heap, volumes[v], heap[t].peer_id).out = "ok"
            => TwoChildrenRemoved(heap, volumes[v],
                                  remove_by_peer_id(heap, volumes[v], heap[t].peer_id), t)

\* a registered host's node with two children whose left child is registered as
\* well, so that its removal completes
C34_Witness ==
    /\ ~hung
    /\ \E v \in DOMAIN volumes : \E t \in FullNodes(heap, volumes[v]) \ {volumes[v].root} :
           /\ heap[heap[t].left].status = "OK"
           /\ remove_by_peer_id(heap, volumes[v], heap[t].peer_id).out = "ok"

\* insert_by_node, into the tree of v, of a new object with the fields rec for host h
Offer(v, h, rec) ==
    insert_by_node(Alloc(heap, NewRef(heap, generate_uuid(h, v)), rec), volumes[v],
                   NewRef(heap, generate_uuid(h, v)))

\* insert_by_node of that object failed and left everything as it was
Turned(r, v, h, rec) ==
    /\ r.out = "InvalidParameterValue"
    /\ r.tree = volumes[v]
    /\ r.heap = Alloc(heap, NewRef(heap, generate_uuid(h, v)), rec)

\* no node of the tree of v can take a child
NoSlot(v) ==
    \A n \in Reach(heap, {volumes[v].root}) :
        ~(heap[n].status = "OK" /\ (heap[n].left = Null \/ heap[n].right = Null))

\* C35: insert_by_node fails with InvalidParameterValue when the node's peer id
\* is in the tree already, when the node has a parent already, and when the
\* tree has no slot; each time the tree's nodes map and every link between
\* nodes stay as they were.
C35_InsertRefusals ==
    ~hung =>
        \A v \in DOMAIN volumes, h \in Hosts, node_status \in {"OK", "pending"} :
            /\ generate_uuid(h, v) \in DOMAIN volumes[v].nodes
               => Turned(Offer(v, h, Loose(v, h, node_status)), v, h, Loose(v, h, node_status))
            /\ Turned(Offer(v, h, [Loose(v, h, node_status) EXCEPT !.parent = volumes[v].root]),
                      v, h, [Loose(v, h, node_status) EXCEPT !.parent = volumes[v].root])
            /\ NoSlot(v)
               => Turned(Offer(v, h, Loose(v, h, node_status)), v, h, Loose(v, h, node_status))

\* a tree without a slot (the two nodes under its root are pending), which
\* holds the node of one host and not that of another
C35_Witness ==
    /\ ~hung
    /\ \E v \in DOMAIN volumes, h1, h2 \in Hosts :
           /\ NoSlot(v)
           /\ generate_uuid(h1, v) \in DOMAIN volumes[v].nodes
           /\ generate_uuid(h2, v) \notin DOMAIN volumes[v].nodes

\* two hosts whose first queries may both be inside scanning_thread.start()
\* before the scanner's greenlet has run
NextRace ==
    \/ Requests(FineHosts, Images, {}, 2)
    \/ Tick(CoarseStep)

SpecRace == Init /\ [][NextRace]_vars

\* C36: the scanner is started on the first query and never a second time,
\* however the query requests interleave: of two queries that both find the
\* status 'init' only one starts it, so that there is never more than one
\* scanner greenlet, and never more than one pass in progress.
C36_ScannerStartedOnce == BagCardinality(scanners) <= 1

\* the step is a register call for the peer id p
RegisterOf(p) ==
    \E v \in Images, b \in BodiesOf(CrowdHosts) : Register(v, p, b)

\* C37: the status of a node changes only from pending to OK, and only in a
\* register call for the node's peer id: no request and no scanner pass turns
\* an OK node into a pending one, and a query for a registered node leaves its
\* status OK.
C37_PendingToOkByRegister ==
    [][\A n \in DOMAIN heap \cap DOMAIN heap' :
           /\ heap[n].status = "OK" => heap'[n].status = "OK"
           /\ heap[n].status # heap'[n].status
              => /\ heap[n].status = "pending" /\ heap'[n].status = "OK"
                 /\ RegisterOf(heap[n].peer_id)]_vars

\* a host has queried and registered, and then queried again: its node has
\* status OK
C37_Witness ==
    /\ ~Overflowed(hist)
    /\ \E i, j, k \in 1..Len(hist) :
           /\ i < j /\ j < k
           /\ hist[i].op = "query" /\ hist[i].out = "ok"
           /\ hist[j].op = "register" /\ hist[j].out = "ok"
           /\ hist[j].peer_id = hist[i].ret.peer_id
           /\ hist[k].op = "query" /\ hist[k].out = "ok"
           /\ hist[k].ret.peer_id = hist[j].peer_id
           /\ \E v \in DOMAIN volumes :
                  /\ hist[j].peer_id \in DOMAIN volumes[v].nodes
                  /\ heap[volumes[v].nodes[hist[j].peer_id]].status = "OK"

\* C38: in every state that requests and scanner passes reach, a node with
\* status pending has no left and no right child; so the branch of
\* tree_remove_by_node that removes what is below a pending node never finds
\* anything to remove.
C38_PendingNodesAreLeaves ==
    \A n \in DOMAIN heap :
        heap[n].status = "pending" => heap[n].left = Null /\ heap[n].right = Null

\* the left child of the root is pending and the right one is not, and the
\* tree has a node below the right one: the search for a slot has passed by the
\* pending node
C38_Witness ==
    \E v \in DOMAIN volumes :
        /\ heap[volumes[v].root].left # Null
        /\ heap[volumes[v].root].right # Null
        /\ heap[heap[volumes[v].root].left].status = "pending"
        /\ heap[heap[volumes[v].root].right].left # Null

\* the binding of the peer id p under host h points into a tree: the tree of the
\* image that p names exists, and its nodes map holds the bound node under p
PointsIntoTree(h, p) ==
    /\ get_image_id_from_peerid(p).out = "ok"
    /\ get_image_id_from_peerid(p).ret \in DOMAIN volumes
    /\ p \in DOMAIN volumes[get_image_id_from_peerid(p).ret].nodes
    /\ volumes[get_image_id_from_peerid(p).ret].nodes[p] = host_to_volumes[h].volume_list[p]

\* the outcomes of a call that met a binding whose node or tree is not there
Astray == {"KeyError", "InvalidParameterValue", "NotFound", "ValueError"}

\* C39: in every reachable state, for every host entry and every peer id bound
\* under it, the tree of the image that the peer id names exists and its nodes
\* map holds the bound node under that peer id; hence neither a heartbeat of the
\* host nor its eviction by the scanner meets a binding whose node has left its
\* tree.
C39_BindingsPointIntoTrees ==
    ~hung =>
        \A h \in DOMAIN host_to_volumes :
            /\ \A p \in DOMAIN host_to_volumes[h].volume_list : PointsIntoTree(h, p)
            /\ update_status(TheEngine, default_executor, h).out \notin Astray
            /\ kick_peers(TheEngine, h, DictOrder(DOMAIN host_to_volumes[h].volume_list)).out
                   \notin Astray

\* a node has left a tree (the root has a free side) in which a bound node
\* remains below the node of another host
C39_Witness ==
    /\ ~hung
    /\ \E h \in DOMAIN host_to_volumes : \E p \in DOMAIN host_to_volumes[h].volume_list :
           /\ PointsIntoTree(h, p)
           /\ ~heap[heap[host_to_volumes[h].volume_list[p]].parent].fake_root
           /\ \/ heap[volumes[get_image_id_from_peerid(p).ret].root].left = Null
              \/ heap[volumes[get_image_id_from_peerid(p).ret].root].right = Null

\* host_to_volumes after a heartbeat of host h: the entry of h, if there is
\* one, was last seen now
Stamped(h) ==
    IF h \in DOMAIN host_to_volumes
    THEN [host_to_volumes EXCEPT ![h].timestamp = Now]
    ELSE host_to_volumes

\* the reply of list() gives, for each tree, the number of nodes reachable from
\* its root, the root included
Counted(reply) ==
    /\ {e.id : e \in reply} = DOMAIN volumes
    /\ \A e \in reply : e.count = Cardinality(Reach(heap, {volumes[e.id].root}))

\* C40: a heartbeat of a host changes nothing but the timestamp of the host's
\* entry, and nothing at all when the host has no entry: no tree, node status
\* or binding changes and no entry is made; list() changes no state, and the
\* count it reports for each tree is the number of nodes reachable from the
\* tree's root, the root included.
C40_HeartbeatAndListReadOnly ==
    /\ [](\A h \in CrowdHosts :
              update_status(TheEngine, default_executor, h).st
                  = Engine(heap, volumes, Stamped(h)))
    /\ [](Counted(get_volumes_list(TheEngine)))
    /\ [][List => UNCHANGED <<heap, volumes, host_to_volumes>>]_vars

\* after a query that made a tree, a host without an entry has sent a
\* heartbeat and still has none, and list() has then reported the tree with
\* its two nodes
C40_Witness ==
    /\ ~Overflowed(hist) /\ Len(hist) = 3
    /\ hist[1].op = "query" /\ hist[1].out = "ok"
    /\ hist[2].op = "heartbeat" /\ hist[2].out = "ok"
    /\ hist[2].host \notin DOMAIN host_to_volumes
    /\ hist[3].op = "list" /\ \E e \in hist[3].ret : e.count = 2

====
